---- MODULE Spec2Model ----
(***************************************************************************)
(* Model of scripts/alignment_quality_checker.py: the                      *)
(* AlignmentQualityChecker object (two measurement tables and the duration *)
(* thresholds), its four checks and generate_quality_report; and of        *)
(* scripts/acoustic_analysis.py: the AcousticAnalyzer that builds the two  *)
(* tables from a folder of annotation files, and its main(); and of        *)
(* scripts/mfa_automation.py: the MFAPipeline that runs the aligner's      *)
(* validate and align commands and writes alignment_report.json.           *)
(*                                                                         *)
(* Representation.  Every value the code holds in seconds (start_time,     *)
(* end_time, duration, the thresholds, the tolerances) is represented by   *)
(* the integer number of milliseconds it denotes, so 0.030 is 30 and 0.001 *)
(* is 1; a field the code scales by 1000 (gap_ms, overlap_ms,              *)
(* difference_ms) denotes the same number of milliseconds.  Quotients the  *)
(* code computes in floating point (mean, z-score, error rate) are kept as *)
(* exact fractions [num, den] and compared by cross-multiplication;        *)
(* rounding error of the floating-point evaluation is outside the model.   *)
(***************************************************************************)
EXTENDS Integers, Sequences, FiniteSets, TLC

VARIABLES
    phoneme_df,           \* self.phoneme_df: sequence of phoneme rows
    word_df,              \* self.word_df: sequence of word rows
    duration_thresholds,  \* self.duration_thresholds
    pc,                   \* position of the caller / of generate_quality_report
    duration_anomalies,   \* value returned by check_duration_anomalies
    timing_issues,        \* value returned by check_timing_gaps
    statistical_outliers, \* value returned by check_phoneme_distribution
    consistency_issues,   \* value returned by check_word_phoneme_consistency
    called,               \* the checks that have returned a value so far
    report,               \* local `report`: <<>> before it is compiled, else <<r>>
    output_file,          \* content of output_file: <<>> before the dump, else <<r>>
    total_issues,         \* local `total_issues`
    error_rate,           \* local `error_rate`: <<>> or <<[num, den]>>
    grade,                \* the grade line printed: "" before it is printed
    outcome,              \* how generate_quality_report ended: <<>> while running,
                          \* <<"ZeroDivisionError">> or <<"return", r>>
    textgrid_files,       \* the annotation files glob() found, in its order,
                          \* each with what loading and sampling it yields
    main_pc,              \* position of acoustic_analysis.main()
    tg_index,             \* position of the loop of analyze_all_files
    all_phoneme_data,     \* local `all_phoneme_data`: one table per file
    all_word_data,        \* local `all_word_data`: one table per file
    combined,             \* <<>> until analyze_all_files returns, then
                          \* <<[phonemes, words]>>: the two combined tables
    sampler_calls,        \* every call of a sampler so far, in call order
    output_folder,        \* the files save_results has written
    main_outcome,         \* how main() ended: "" while it runs
    formants_call,        \* a call of extract_formants by itself: <<>>, or
                          \* <<c>> with the arguments and, once it ended,
                          \* what it returned
    mfa,                  \* what the machine gives the pipeline: how each mfa
                          \* command ends and what the folders hold
    pipeline_pc,          \* position of MFAPipeline.run_full_pipeline
    commands_run,         \* the commands handed to subprocess.run, in order
    validated,            \* value returned by validate_corpus: <<>> or <<b>>
    aligned,              \* value returned by run_alignment: <<>> or <<b>>
    log_file,             \* the lines of pipeline_log.txt, without timestamps
    output_textgrids,     \* number of *.TextGrid files in output_path
    alignment_report,     \* content of alignment_report.json: <<>> or <<r>>
    pipeline_result       \* value returned by run_full_pipeline: <<>> or <<b>>

checker_vars ==
    <<phoneme_df, word_df, duration_thresholds, pc, duration_anomalies,
      timing_issues, statistical_outliers, consistency_issues, called,
      report, output_file, total_issues, error_rate, grade, outcome>>

analyzer_vars ==
    <<textgrid_files, main_pc, tg_index, all_phoneme_data, all_word_data,
      combined, sampler_calls, output_folder, main_outcome, formants_call>>

pipeline_vars ==
    <<mfa, pipeline_pc, commands_run, validated, aligned, log_file,
      output_textgrids, alignment_report, pipeline_result>>

vars == <<phoneme_df, word_df, duration_thresholds, pc, duration_anomalies,
          timing_issues, statistical_outliers, consistency_issues, called,
          report, output_file, total_issues, error_rate, grade, outcome,
          textgrid_files, main_pc, tg_index, all_phoneme_data, all_word_data,
          combined, sampler_calls, output_folder, main_outcome, formants_call,
          mfa, pipeline_pc, commands_run, validated, aligned, log_file,
          output_textgrids, alignment_report, pipeline_result>>

----------------------------------------------------------------------------
(* Generic helpers standing for pandas / Python primitives.                *)

abs(x) == IF x < 0 THEN -x ELSE x

RECURSIVE SumSeq(_)
SumSeq(s) == IF s = <<>> THEN 0 ELSE Head(s) + SumSeq(Tail(s))

\* Series.unique(): the distinct values in order of first appearance.
RECURSIVE unique(_)
unique(s) ==
    IF s = <<>> THEN <<>>
    ELSE LET h == Head(s)
             NotH(x) == x # h
         IN  <<h>> \o unique(SelectSeq(Tail(s), NotH))

Column(df, Field(_)) == [i \in 1..Len(df) |-> Field(df[i])]

RowFile(r) == r.file
RowPhoneme(r) == r.phoneme
RowDuration(r) == r.duration

----------------------------------------------------------------------------
(* check_duration_anomalies (lines 54-137).                                *)

\* the record appended for a flagged phoneme (lines 79-85 and alike)
DurationRecord(row) ==
    [file |-> row.file, phoneme |-> row.phoneme, duration |-> row.duration,
     start |-> row.start_time, end |-> row.end_time]

EmptyDurationAnomalies ==
    [too_short_vowels |-> <<>>, too_long_vowels |-> <<>>,
     too_short_consonants |-> <<>>, too_long_consonants |-> <<>>]

\* A slip of the comparison operators: the range boundaries flagged as well.
DurationRow_BoundaryFlagged(anomalies, row, th) ==
    IF row.is_vowel
    THEN IF row.duration <= th.vowel_min
         THEN [anomalies EXCEPT !.too_short_vowels = Append(@, DurationRecord(row))]
         ELSE IF row.duration >= th.vowel_max
         THEN [anomalies EXCEPT !.too_long_vowels = Append(@, DurationRecord(row))]
         ELSE anomalies
    ELSE IF row.duration <= th.consonant_min
         THEN [anomalies EXCEPT !.too_short_consonants = Append(@, DurationRecord(row))]
         ELSE IF row.duration >= th.consonant_max
         THEN [anomalies EXCEPT !.too_long_consonants = Append(@, DurationRecord(row))]
         ELSE anomalies

\* the body of the loop over the rows (lines 73-110)
DurationRow(anomalies, row, th) ==
    IF row.is_vowel
    THEN IF row.duration < th.vowel_min
         THEN [anomalies EXCEPT !.too_short_vowels = Append(@, DurationRecord(row))]
         ELSE IF row.duration > th.vowel_max
         THEN [anomalies EXCEPT !.too_long_vowels = Append(@, DurationRecord(row))]
         ELSE anomalies
    ELSE IF row.duration < th.consonant_min
         THEN [anomalies EXCEPT !.too_short_consonants = Append(@, DurationRecord(row))]
         ELSE IF row.duration > th.consonant_max
         THEN [anomalies EXCEPT !.too_long_consonants = Append(@, DurationRecord(row))]
         ELSE anomalies

RECURSIVE DurationLoop(_, _, _, _)
DurationLoop(df, th, i, anomalies) ==
    IF i > Len(df) THEN anomalies
    ELSE DurationLoop(df, th, i + 1, DurationRow(anomalies, df[i], th))

\* the value check_duration_anomalies returns
DurationAnomaliesOf(df, th) == DurationLoop(df, th, 1, EmptyDurationAnomalies)

----------------------------------------------------------------------------
(* check_timing_gaps (lines 139-198).                                      *)

\* A slip that drops the selection by file: every file's frame is the table.
FileFrame_WholeTable(df, file_name) == df

\* self.phoneme_df[self.phoneme_df['file'] == file_name] (line 155)
FileFrame(df, file_name) ==
    LET InFile(r) == r.file = file_name IN SelectSeq(df, InFile)

MinStart(frame, idx) ==
    CHOOSE m \in {frame[i].start_time : i \in idx} :
        \A j \in idx : m <= frame[j].start_time

\* DataFrame.sort_values('start_time') with the default kind (quicksort): the
\* rows in non-decreasing start_time; the sort is not stable, so the order of
\* rows with equal start_time is any order.  The set of frames it can return.
RECURSIVE SortOrders(_, _)
SortOrders(frame, idx) ==
    IF idx = {} THEN {<<>>}
    ELSE LET m == MinStart(frame, idx)
             firsts == {i \in idx : frame[i].start_time = m}
         IN  UNION {{<<frame[i]>> \o rest : rest \in SortOrders(frame, idx \ {i})}
                    : i \in firsts}

sort_values(frame) == SortOrders(frame, DOMAIN frame)

GapRecord(file_name, current, next_phoneme, gap) ==
    [file |-> file_name, after_phoneme |-> current.phoneme,
     before_phoneme |-> next_phoneme.phoneme, gap_ms |-> gap,
     time |-> current.end_time]

OverlapRecord(file_name, current, next_phoneme, gap) ==
    [file |-> file_name, phoneme1 |-> current.phoneme,
     phoneme2 |-> next_phoneme.phoneme, overlap_ms |-> abs(gap),
     time |-> current.end_time]

\* A slip that drops the 1ms tolerance: any non-zero gap is recorded.
TimingPair_NoTolerance(issues, file_name, current, next_phoneme) ==
    LET gap == next_phoneme.start_time - current.end_time
    IN  IF gap > 0
        THEN [issues EXCEPT !.gaps =
                 Append(@, GapRecord(file_name, current, next_phoneme, gap))]
        ELSE IF gap < 0
        THEN [issues EXCEPT !.overlaps =
                 Append(@, OverlapRecord(file_name, current, next_phoneme, gap))]
        ELSE issues

\* the body of the loop over consecutive pairs (lines 159-182)
TimingPair(issues, file_name, current, next_phoneme) ==
    LET gap == next_phoneme.start_time - current.end_time
    IN  IF gap > 1
        THEN [issues EXCEPT !.gaps =
                 Append(@, GapRecord(file_name, current, next_phoneme, gap))]
        ELSE IF gap < -1
        THEN [issues EXCEPT !.overlaps =
                 Append(@, OverlapRecord(file_name, current, next_phoneme, gap))]
        ELSE issues

RECURSIVE TimingPairLoop(_, _, _, _)
TimingPairLoop(issues, file_name, file_phonemes, i) ==
    IF i > Len(file_phonemes) - 1 THEN issues
    ELSE TimingPairLoop(
             TimingPair(issues, file_name, file_phonemes[i], file_phonemes[i + 1]),
             file_name, file_phonemes, i + 1)

\* the loop over the files (lines 154-182), given the sorted frame of every
\* file: orders is a function from file name to the frame sort_values returned
RECURSIVE TimingFileLoop(_, _, _)
TimingFileLoop(issues, files, orders) ==
    IF files = <<>> THEN issues
    ELSE TimingFileLoop(
             TimingPairLoop(issues, Head(files), orders[Head(files)], 1),
             Tail(files), orders)

FileNames(df) == unique(Column(df, RowFile))

FileSet(df) == {df[i].file : i \in 1..Len(df)}

\* every choice of sorted frames, one per file
SortedFrames(df) ==
    {o \in [FileSet(df) -> UNION {sort_values(FileFrame(df, f)) : f \in FileSet(df)}] :
        \A f \in FileSet(df) : o[f] \in sort_values(FileFrame(df, f))}

EmptyTimingIssues == [gaps |-> <<>>, overlaps |-> <<>>]

\* the value check_timing_gaps returns when sort_values returned `orders`
TimingIssuesOf(df, orders) == TimingFileLoop(EmptyTimingIssues, FileNames(df), orders)

----------------------------------------------------------------------------
(* check_phoneme_distribution (lines 200-245).                             *)

\* A slip of the filter: the durations of the whole table, whatever the symbol.
phoneme_data_AllSymbols(df, phoneme) == Column(df, RowDuration)

\* self.phoneme_df[self.phoneme_df['phoneme'] == phoneme]['duration'] (line 215)
phoneme_data(df, phoneme) ==
    LET IsPhoneme(r) == r.phoneme = phoneme
    IN  Column(SelectSeq(df, IsPhoneme), RowDuration)

\* A slip of the filter: every row of the table is scored against the group.
phoneme_rows_AllSymbols(df, phoneme) == df

\* self.phoneme_df[self.phoneme_df['phoneme'] == phoneme] (line 224)
phoneme_rows(df, phoneme) ==
    LET IsPhoneme(r) == r.phoneme = phoneme IN SelectSeq(df, IsPhoneme)

\* Series.mean(): the sum over the count, as a fraction
mean_of(data) == [num |-> SumSeq(data), den |-> Len(data)]

\* sum of (n*x - S)^2 over the data: n^2 times the sum of squared deviations
RECURSIVE SumSqDev(_, _, _)
SumSqDev(data, n, S) ==
    IF data = <<>> THEN 0
    ELSE (n * Head(data) - S) * (n * Head(data) - S) + SumSqDev(Tail(data), n, S)

\* The variance with the population denominator n (numpy's default, ddof=0).
variance_Population(data) ==
    LET n == Len(data)
    IN  [num |-> SumSqDev(data, n, SumSeq(data)), den |-> n * n * n]

\* The square of Series.std() (line 221).  pandas' std has ddof=1: the sum of
\* squared deviations from the mean over n - 1.  Only called with n >= 3.
variance(data) ==
    LET n == Len(data)
    IN  [num |-> SumSqDev(data, n, SumSeq(data)), den |-> n * n * (n - 1)]

\* The square of z_score (line 226): abs((duration - mean) / std) if std > 0,
\* else 0.  std > 0 iff the variance is > 0.
z_score_sq(duration, mean, var) ==
    IF var.num > 0
    THEN LET dev == duration * mean.den - mean.num   \* (duration - mean) * mean.den
         IN  [num |-> dev * dev * var.den, den |-> mean.den * mean.den * var.num]
    ELSE [num |-> 0, den |-> 1]

\* A lower bar: z_score > 2.
IsOutlier_AboveTwo(z_sq) == z_sq.num > 4 * z_sq.den

\* z_score > 3 (line 228), on the square: z > 3 iff z^2 > 9 as z >= 0
IsOutlier(z_sq) == z_sq.num > 9 * z_sq.den

OutlierRecord(row, phoneme, mean, z_sq) ==
    [file |-> row.file, phoneme |-> phoneme, duration |-> row.duration,
     mean_duration |-> mean, z_score |-> z_sq, time |-> row.start_time]

\* the loop over the rows of one symbol (lines 224-236)
RECURSIVE OutlierRowLoop(_, _, _, _, _)
OutlierRowLoop(outliers, rows, phoneme, mean, var) ==
    IF rows = <<>> THEN outliers
    ELSE LET row == Head(rows)
             z_sq == z_score_sq(row.duration, mean, var)
         IN  OutlierRowLoop(
                 IF IsOutlier(z_sq)
                 THEN Append(outliers, OutlierRecord(row, phoneme, mean, z_sq))
                 ELSE outliers,
                 Tail(rows), phoneme, mean, var)

\* len(phoneme_data) < 3 (line 217)
TooFewOccurrences(data) == Len(data) < 3

\* the loop over the symbols (lines 214-236)
RECURSIVE OutlierSymbolLoop(_, _, _)
OutlierSymbolLoop(outliers, symbols, df) ==
    IF symbols = <<>> THEN outliers
    ELSE LET phoneme == Head(symbols)
             data == phoneme_data(df, phoneme)
         IN  OutlierSymbolLoop(
                 IF TooFewOccurrences(data) THEN outliers
                 ELSE OutlierRowLoop(outliers, phoneme_rows(df, phoneme), phoneme,
                                     mean_of(data), variance(data)),
                 Tail(symbols), df)

\* the value check_phoneme_distribution returns
StatisticalOutliersOf(df) ==
    OutlierSymbolLoop(<<>>, unique(Column(df, RowPhoneme)), df)

----------------------------------------------------------------------------
(* check_word_phoneme_consistency (lines 247-308).                         *)

\* A slip that drops the file condition of the filter.
phonemes_in_word_AnyFile(df, word) ==
    LET Within(r) == /\ r.start_time >= word.start_time - 1
                     /\ r.end_time <= word.end_time + 1
    IN  SelectSeq(df, Within)

\* the filter of lines 267-271
phonemes_in_word(df, word) ==
    LET Within(r) == /\ r.file = word.file
                     /\ r.start_time >= word.start_time - 1
                     /\ r.end_time <= word.end_time + 1
    IN  SelectSeq(df, Within)

NoPhonemesRecord(word) ==
    [file |-> word.file, word |-> word.word, issue |-> "no_phonemes",
     time |-> word.start_time]

MismatchRecord(word, phoneme_duration_sum, difference) ==
    [file |-> word.file, word |-> word.word, issue |-> "duration_mismatch",
     word_duration |-> word.duration, phoneme_sum |-> phoneme_duration_sum,
     difference_ms |-> difference, time |-> word.start_time]

\* A slip that drops abs(): only a word longer than its phonemes is flagged.
word_difference_Signed(word, phoneme_duration_sum) ==
    word.duration - phoneme_duration_sum

\* difference = abs(word_duration - phoneme_duration_sum) (line 283)
word_difference(word, phoneme_duration_sum) ==
    abs(word.duration - phoneme_duration_sum)

\* the body of the loop over the words (lines 261-295)
ConsistencyWord(mismatches, word, df) ==
    LET matched == phonemes_in_word(df, word)
        phoneme_duration_sum == SumSeq(Column(matched, RowDuration))
        difference == word_difference(word, phoneme_duration_sum)
    IN  IF Len(matched) = 0
        THEN Append(mismatches, NoPhonemesRecord(word))
        ELSE IF difference > 10
        THEN Append(mismatches, MismatchRecord(word, phoneme_duration_sum, difference))
        ELSE mismatches

RECURSIVE ConsistencyLoop(_, _, _, _)
ConsistencyLoop(mismatches, words, i, df) ==
    IF i > Len(words) THEN mismatches
    ELSE ConsistencyLoop(ConsistencyWord(mismatches, words[i], df), words, i + 1, df)

\* the value check_word_phoneme_consistency returns
ConsistencyIssuesOf(df, words) == ConsistencyLoop(<<>>, words, 1, df)

----------------------------------------------------------------------------
(* generate_quality_report (lines 310-390): the pure parts.                *)

\* the report dictionary of lines 328-350; 'timestamp' (the wall clock) is
\* left out
CompileReport(df, words, da, ti, so, ci) ==
    [total_phonemes |-> Len(df),
     total_words |-> Len(words),
     duration_anomalies |->
        [too_short_vowels |-> Len(da.too_short_vowels),
         too_long_vowels |-> Len(da.too_long_vowels),
         too_short_consonants |-> Len(da.too_short_consonants),
         too_long_consonants |-> Len(da.too_long_consonants)],
     timing_issues |-> [gaps |-> Len(ti.gaps), overlaps |-> Len(ti.overlaps)],
     statistical_outliers |-> Len(so),
     word_phoneme_mismatches |-> Len(ci),
     details |-> [duration_anomalies |-> da, timing_issues |-> ti,
                  statistical_outliers |-> so, consistency_issues |-> ci]]

\* A slip that leaves the word/phoneme mismatches out of the total.
TotalIssuesOf_NoMismatches(r) ==
    r.duration_anomalies.too_short_vowels + r.duration_anomalies.too_long_vowels
    + r.duration_anomalies.too_short_consonants
    + r.duration_anomalies.too_long_consonants
    + r.timing_issues.gaps + r.timing_issues.overlaps
    + r.statistical_outliers

\* total_issues (lines 362-367)
TotalIssuesOf(r) ==
    r.duration_anomalies.too_short_vowels + r.duration_anomalies.too_long_vowels
    + r.duration_anomalies.too_short_consonants
    + r.duration_anomalies.too_long_consonants
    + r.timing_issues.gaps + r.timing_issues.overlaps
    + r.statistical_outliers + r.word_phoneme_mismatches

\* (total_issues / len(self.phoneme_df)) * 100 (line 376), for a non-empty table
ErrorRateOf(issues, n) == [num |-> issues * 100, den |-> n]

\* A slip of the comparison operators: the boundaries fall in the better grade.
GradeOf_BoundaryInclusive(rate) ==
    IF rate.num <= 5 * rate.den THEN "EXCELLENT"
    ELSE IF rate.num <= 10 * rate.den THEN "GOOD"
    ELSE IF rate.num <= 20 * rate.den THEN "FAIR"
    ELSE "POOR"

\* the grade printed by lines 379-386 (rate.den > 0)
GradeOf(rate) ==
    IF rate.num < 5 * rate.den THEN "EXCELLENT"
    ELSE IF rate.num < 10 * rate.den THEN "GOOD"
    ELSE IF rate.num < 20 * rate.den THEN "FAIR"
    ELSE "POOR"

\* A guard the code does not have: an empty table is never divided by.
DividesByZero_Guarded(n) == FALSE

\* line 376 raises ZeroDivisionError iff len(self.phoneme_df) is 0
DividesByZero(n) == n = 0

----------------------------------------------------------------------------
(* The state machine.  pc = "idle": the checker is constructed and no call *)
(* is running; a caller may run any check, or generate_quality_report,     *)
(* which then advances through its own steps.                              *)

\* self.duration_thresholds (lines 39-45), in milliseconds
DurationThresholds ==
    [vowel_min |-> 30, vowel_max |-> 400, consonant_min |-> 20,
     consonant_max |-> 250, silence_max |-> 2000]

\* no pipeline is constructed beside the checker or the analyzer
PipelineNotConstructed ==
    /\ mfa = <<>>
    /\ pipeline_pc = "none"
    /\ commands_run = <<>>
    /\ validated = <<>>
    /\ aligned = <<>>
    /\ log_file = <<>>
    /\ output_textgrids = 0
    /\ alignment_report = <<>>
    /\ pipeline_result = <<>>

\* no analyzer runs beside the checker
AnalyzerNotRun ==
    /\ textgrid_files = <<>>
    /\ main_pc = "none"
    /\ tg_index = 0
    /\ all_phoneme_data = <<>>
    /\ all_word_data = <<>>
    /\ combined = <<>>
    /\ sampler_calls = <<>>
    /\ output_folder = {}
    /\ main_outcome = ""

\* the state __init__ leaves (lines 35-45), for the two tables read
Constructed(pdf, wdf) ==
    /\ phoneme_df = pdf
    /\ word_df = wdf
    /\ duration_thresholds = DurationThresholds
    /\ pc = "idle"
    /\ duration_anomalies = EmptyDurationAnomalies
    /\ timing_issues = EmptyTimingIssues
    /\ statistical_outliers = <<>>
    /\ consistency_issues = <<>>
    /\ called = {}
    /\ report = <<>>
    /\ output_file = <<>>
    /\ total_issues = 0
    /\ error_rate = <<>>
    /\ grade = ""
    /\ outcome = <<>>
    /\ AnalyzerNotRun
    /\ formants_call = <<>>
    /\ PipelineNotConstructed

check_duration_anomalies ==
    /\ pc = "idle"
    /\ duration_anomalies' = DurationAnomaliesOf(phoneme_df, duration_thresholds)
    /\ called' = called \cup {"duration"}
    /\ UNCHANGED <<phoneme_df, word_df, duration_thresholds, pc, timing_issues,
                   statistical_outliers, consistency_issues, report, output_file,
                   total_issues, error_rate, grade, outcome>>
    /\ UNCHANGED <<analyzer_vars, pipeline_vars>>

\* the frames of the files, one after the other
RECURSIVE FramesInOrder(_, _)
FramesInOrder(files, orders) ==
    IF files = <<>> THEN <<>>
    ELSE orders[Head(files)] \o FramesInOrder(Tail(files), orders)

\* A slip that sorts the table itself (sort_values(..., inplace=True) on
\* self.phoneme_df) instead of a selection of it.
check_timing_gaps_SortsInPlace ==
    /\ pc = "idle"
    /\ \E orders \in SortedFrames(phoneme_df) :
           /\ timing_issues' = TimingIssuesOf(phoneme_df, orders)
           /\ phoneme_df' = FramesInOrder(FileNames(phoneme_df), orders)
    /\ called' = called \cup {"timing"}
    /\ UNCHANGED <<word_df, duration_thresholds, pc, duration_anomalies,
                   statistical_outliers, consistency_issues, report, output_file,
                   total_issues, error_rate, grade, outcome>>
    /\ UNCHANGED <<analyzer_vars, pipeline_vars>>

check_timing_gaps ==
    /\ pc = "idle"
    /\ \E orders \in SortedFrames(phoneme_df) :
           timing_issues' = TimingIssuesOf(phoneme_df, orders)
    /\ called' = called \cup {"timing"}
    /\ UNCHANGED <<phoneme_df, word_df, duration_thresholds, pc, duration_anomalies,
                   statistical_outliers, consistency_issues, report, output_file,
                   total_issues, error_rate, grade, outcome>>
    /\ UNCHANGED <<analyzer_vars, pipeline_vars>>

check_phoneme_distribution ==
    /\ pc = "idle"
    /\ statistical_outliers' = StatisticalOutliersOf(phoneme_df)
    /\ called' = called \cup {"distribution"}
    /\ UNCHANGED <<phoneme_df, word_df, duration_thresholds, pc, duration_anomalies,
                   timing_issues, consistency_issues, report, output_file,
                   total_issues, error_rate, grade, outcome>>
    /\ UNCHANGED <<analyzer_vars, pipeline_vars>>

check_word_phoneme_consistency ==
    /\ pc = "idle"
    /\ consistency_issues' = ConsistencyIssuesOf(phoneme_df, word_df)
    /\ called' = called \cup {"consistency"}
    /\ UNCHANGED <<phoneme_df, word_df, duration_thresholds, pc, duration_anomalies,
                   timing_issues, statistical_outliers, report, output_file,
                   total_issues, error_rate, grade, outcome>>
    /\ UNCHANGED <<analyzer_vars, pipeline_vars>>

\* generate_quality_report, lines 322-325: the four checks, in this order
gqr_run_checks ==
    /\ pc = "idle"
    /\ duration_anomalies' = DurationAnomaliesOf(phoneme_df, duration_thresholds)
    /\ \E orders \in SortedFrames(phoneme_df) :
           timing_issues' = TimingIssuesOf(phoneme_df, orders)
    /\ statistical_outliers' = StatisticalOutliersOf(phoneme_df)
    /\ consistency_issues' = ConsistencyIssuesOf(phoneme_df, word_df)
    /\ called' = {"duration", "timing", "distribution", "consistency"}
    /\ pc' = "compile"
    /\ UNCHANGED <<phoneme_df, word_df, duration_thresholds, report, output_file,
                   total_issues, error_rate, grade, outcome>>
    /\ UNCHANGED <<analyzer_vars, pipeline_vars>>

\* lines 328-350
gqr_compile ==
    /\ pc = "compile"
    /\ report' = <<CompileReport(phoneme_df, word_df, duration_anomalies,
                                 timing_issues, statistical_outliers,
                                 consistency_issues)>>
    /\ pc' = "save"
    /\ UNCHANGED <<phoneme_df, word_df, duration_thresholds, duration_anomalies,
                   timing_issues, statistical_outliers, consistency_issues, called,
                   output_file, total_issues, error_rate, grade, outcome>>
    /\ UNCHANGED <<analyzer_vars, pipeline_vars>>

\* A slip that leaves the dump out: the report is compiled and summarised
\* but no file is written.
gqr_save_NoDump ==
    /\ pc = "save"
    /\ pc' = "summary"
    /\ UNCHANGED <<phoneme_df, word_df, duration_thresholds, duration_anomalies,
                   timing_issues, statistical_outliers, consistency_issues, called,
                   report, output_file, total_issues, error_rate, grade, outcome>>
    /\ UNCHANGED <<analyzer_vars, pipeline_vars>>

\* lines 353-354: json.dump(report, f)
gqr_save ==
    /\ pc = "save"
    /\ output_file' = report
    /\ pc' = "summary"
    /\ UNCHANGED <<phoneme_df, word_df, duration_thresholds, duration_anomalies,
                   timing_issues, statistical_outliers, consistency_issues, called,
                   report, total_issues, error_rate, grade, outcome>>
    /\ UNCHANGED <<analyzer_vars, pipeline_vars>>

\* lines 362-373
gqr_summary ==
    /\ pc = "summary"
    /\ total_issues' = TotalIssuesOf(report[1])
    /\ pc' = "error_rate"
    /\ UNCHANGED <<phoneme_df, word_df, duration_thresholds, duration_anomalies,
                   timing_issues, statistical_outliers, consistency_issues, called,
                   report, output_file, error_rate, grade, outcome>>
    /\ UNCHANGED <<analyzer_vars, pipeline_vars>>

\* line 376: the division raises out of generate_quality_report, or yields
\* error_rate
gqr_error_rate ==
    /\ pc = "error_rate"
    /\ IF DividesByZero(Len(phoneme_df))
       THEN /\ outcome' = <<[kind |-> "ZeroDivisionError", value |-> <<>>]>>
            /\ pc' = "failed"
            /\ UNCHANGED error_rate
       ELSE /\ error_rate' = <<ErrorRateOf(total_issues, Len(phoneme_df))>>
            /\ pc' = "grade"
            /\ UNCHANGED outcome
    /\ UNCHANGED <<phoneme_df, word_df, duration_thresholds, duration_anomalies,
                   timing_issues, statistical_outliers, consistency_issues, called,
                   report, output_file, total_issues, grade>>
    /\ UNCHANGED <<analyzer_vars, pipeline_vars>>

\* lines 379-386
gqr_grade ==
    /\ pc = "grade"
    /\ grade' = GradeOf(error_rate[1])
    /\ pc' = "return"
    /\ UNCHANGED <<phoneme_df, word_df, duration_thresholds, duration_anomalies,
                   timing_issues, statistical_outliers, consistency_issues, called,
                   report, output_file, total_issues, error_rate, outcome>>
    /\ UNCHANGED <<analyzer_vars, pipeline_vars>>

\* line 390
gqr_return ==
    /\ pc = "return"
    /\ outcome' = <<[kind |-> "return", value |-> report]>>
    /\ pc' = "done"
    /\ UNCHANGED <<phoneme_df, word_df, duration_thresholds, duration_anomalies,
                   timing_issues, statistical_outliers, consistency_issues, called,
                   report, output_file, total_issues, error_rate, grade>>
    /\ UNCHANGED <<analyzer_vars, pipeline_vars>>

generate_quality_report ==
    \/ gqr_run_checks
    \/ gqr_compile
    \/ gqr_save
    \/ gqr_summary
    \/ gqr_error_rate
    \/ gqr_grade
    \/ gqr_return

----------------------------------------------------------------------------
(* The tables the checker is constructed on.  They are tables as           *)
(* acoustic_analysis.py writes them: duration = end_time - start_time and  *)
(* is_vowel = membership of the label in the vowel list.                   *)

\* the members of AcousticAnalyzer.vowels among the labels used below
vowels == {"AE1", "IY1"}

PhonemeRow(file, phoneme, start, end) ==
    [file |-> file, phoneme |-> phoneme, start_time |-> start, end_time |-> end,
     duration |-> end - start, is_vowel |-> phoneme \in vowels]

WordRow(file, word, start, end) ==
    [file |-> file, word |-> word, start_time |-> start, end_time |-> end,
     duration |-> end - start]

\* the rows of symbol p
RowsOfSymbol(df, p) == LET OfSymbol(r) == r.phoneme = p IN SelectSeq(df, OfSymbol)

\* the tables of at most n rows drawn from rows
Tables(rows, n) == UNION {[1..k -> rows] : k \in 0..n}

MaxPhonemes == 2
MaxWords == 1

PhonemeRowsSmall ==
    {PhonemeRow("f1", "AE1", 0, 15), PhonemeRow("f1", "B", 15, 75),
     PhonemeRow("f1", "AE1", 80, 500), PhonemeRow("f2", "B", 0, 10),
     PhonemeRow("f2", "T", 5, 300)}

WordRowsSmall ==
    {WordRow("f1", "cab", 0, 75), WordRow("f1", "bad", 0, 100),
     WordRow("f2", "at", 400, 500)}

\* One corpus with an anomaly of every category: ten AE1 of 50ms and one of
\* 60ms (a statistical outlier), a short and a long vowel, a gap, an overlap,
\* a short and a long consonant, a word longer than its phonemes and a word
\* of a file without phonemes.
SampleCorpus ==
    [i \in 1..10 |-> PhonemeRow("f1", "AE1", 50 * (i - 1), 50 * i)]
    \o <<PhonemeRow("f1", "AE1", 500, 560), PhonemeRow("f1", "IY1", 560, 575),
         PhonemeRow("f1", "IY1", 575, 1000), PhonemeRow("f1", "B", 1005, 1015),
         PhonemeRow("f1", "T", 1010, 1300)>>

SampleWords ==
    <<WordRow("f1", "at", 0, 100), WordRow("f1", "bad", 0, 120),
      WordRow("f2", "zz", 0, 100)>>

Init ==
    \E pdf \in Tables(PhonemeRowsSmall, MaxPhonemes) \cup {SampleCorpus},
       wdf \in Tables(WordRowsSmall, MaxWords) \cup {SampleWords} :
        Constructed(pdf, wdf)

Next ==
    \/ check_duration_anomalies
    \/ check_timing_gaps
    \/ check_phoneme_distribution
    \/ check_word_phoneme_consistency
    \/ generate_quality_report

Spec == Init /\ [][Next]_vars

----------------------------------------------------------------------------
(* Specifications of the single checks, each over a family of tables that  *)
(* exercises the check's boundaries.                                       *)

\* check_duration_anomalies: one vowel and one consonant symbol, durations
\* on, just inside and just outside the four thresholds
MaxDurationRows == 2

DurationProbes == {15, 19, 20, 21, 29, 30, 31, 35, 249, 250, 251, 399, 400, 401, 450}

DurationProbeRows ==
    {PhonemeRow("f1", p, 0, d) : p \in {"AE1", "B"}, d \in DurationProbes}

InitDuration ==
    \E pdf \in Tables(DurationProbeRows, MaxDurationRows) : Constructed(pdf, <<>>)

SpecDuration == InitDuration /\ [][check_duration_anomalies]_vars

\* check_timing_gaps: intervals that follow one another with gaps of 1 and
\* 2ms, overlaps of 1 and 2ms, equal start times, in two files, in any row
\* order
MaxTimingRows == 4

TimingProbeRows ==
    {PhonemeRow("f1", "B", 0, 10), PhonemeRow("f1", "AE1", 11, 20),
     PhonemeRow("f1", "AE1", 12, 20), PhonemeRow("f1", "T", 11, 25),
     PhonemeRow("f1", "T", 18, 30), PhonemeRow("f1", "IY1", 32, 40),
     PhonemeRow("f2", "B", 0, 10), PhonemeRow("f2", "AE1", 9, 20)}

InitTiming ==
    \E pdf \in Tables(TimingProbeRows, MaxTimingRows) : Constructed(pdf, <<>>)

SpecTiming == InitTiming /\ [][check_timing_gaps]_vars

\* check_phoneme_distribution: up to MaxCommon occurrences of AE1 of 50ms
\* in a row, with up to MaxRare other rows (AE1 of 52ms or 60ms, B of 60ms
\* or 90ms) before and after them
MaxCommon == 10
MaxRare == 2

CommonRow == PhonemeRow("f1", "AE1", 0, 50)

RareRows ==
    {PhonemeRow("f1", "AE1", 0, 52), PhonemeRow("f1", "AE1", 0, 60),
     PhonemeRow("f2", "B", 0, 60), PhonemeRow("f2", "B", 0, 90)}

DistributionTables ==
    {t[1] \o [i \in 1..t[2] |-> CommonRow] \o t[3] :
        t \in {u \in Tables(RareRows, MaxRare) \X (0..MaxCommon)
                     \X Tables(RareRows, MaxRare) :
                  Len(u[1]) + Len(u[3]) <= MaxRare}}

InitDistribution == \E pdf \in DistributionTables : Constructed(pdf, <<>>)

SpecDistribution == InitDistribution /\ [][check_phoneme_distribution]_vars

\* check_word_phoneme_consistency: a word [100, 200] with phonemes that
\* start 0, 1 or 2ms before it, end 0, 1 or 2ms after it, sum to 10 or 11ms
\* less than it, or belong to another file
MaxConsistencyPhonemes == 3
MaxConsistencyWords == 1

ConsistencyPhonemeRows ==
    {PhonemeRow("f1", "B", 98, 150), PhonemeRow("f1", "B", 99, 150),
     PhonemeRow("f1", "B", 100, 150), PhonemeRow("f1", "AE1", 150, 189),
     PhonemeRow("f1", "AE1", 150, 190), PhonemeRow("f1", "AE1", 150, 201),
     PhonemeRow("f1", "AE1", 150, 202), PhonemeRow("f2", "T", 100, 150)}

ConsistencyWordRows == {WordRow("f1", "cab", 100, 200), WordRow("f2", "at", 100, 200)}

InitConsistency ==
    \E pdf \in Tables(ConsistencyPhonemeRows, MaxConsistencyPhonemes),
       wdf \in Tables(ConsistencyWordRows, MaxConsistencyWords) :
        Constructed(pdf, wdf)

SpecConsistency == InitConsistency /\ [][check_word_phoneme_consistency]_vars

\* generate_quality_report on n back-to-back AE1 of 100ms (no anomaly) and
\* w words of a file without phonemes (one no_phonemes record each): the
\* error rate is w / n
MaxGradePhonemes == 20
MaxGradeWords == 4

CleanPhonemes(n) == [i \in 1..n |-> PhonemeRow("f1", "AE1", 100 * (i - 1), 100 * i)]

OrphanWords(w) == [i \in 1..w |-> WordRow("f2", "at", 100 * (i - 1), 100 * i)]

InitGrade ==
    \E n \in 0..MaxGradePhonemes, w \in 0..MaxGradeWords :
        Constructed(CleanPhonemes(n), OrphanWords(w))

SpecGrade == InitGrade /\ [][generate_quality_report]_vars

----------------------------------------------------------------------------
(* Properties.                                                             *)

\* the records of the rows that satisfy P, in table order
FlaggedRecords(df, P(_)) == Column(SelectSeq(df, P), DurationRecord)

RecordsOfFile(list, f) == LET OfFile(r) == r.file = f IN SelectSeq(list, OfFile)

\* C2: after check_timing_gaps there is a start-time order of every file's
\* rows for which, with gap = next.start - current.end over the consecutive
\* pairs: the file's gap records are exactly the pairs with gap > 1ms, its
\* overlap records exactly the pairs with gap < -1ms, each carrying |gap|,
\* in pair order; a pair with |gap| <= 1ms has no record, so that every
\* pair falls in exactly one of the three cases and no record names another
\* file.
C2_TimingTrichotomy ==
    "timing" \in called =>
        \E orders \in SortedFrames(phoneme_df) :
            /\ \A f \in FileSet(phoneme_df) :
                LET frame == orders[f]
                    pairs == [i \in 1..(Len(frame) - 1) |-> i]
                    gap(i) == frame[i + 1].start_time - frame[i].end_time
                    IsGap(i) == gap(i) > 1
                    IsOverlap(i) == gap(i) < -1
                    IsAdjacent(i) == -1 <= gap(i) /\ gap(i) <= 1
                    gapPairs == SelectSeq(pairs, IsGap)
                    overlapPairs == SelectSeq(pairs, IsOverlap)
                IN  /\ RecordsOfFile(timing_issues.gaps, f) =
                           [k \in 1..Len(gapPairs) |->
                               [file |-> f,
                                after_phoneme |-> frame[gapPairs[k]].phoneme,
                                before_phoneme |-> frame[gapPairs[k] + 1].phoneme,
                                gap_ms |-> gap(gapPairs[k]),
                                time |-> frame[gapPairs[k]].end_time]]
                    /\ RecordsOfFile(timing_issues.overlaps, f) =
                           [k \in 1..Len(overlapPairs) |->
                               [file |-> f,
                                phoneme1 |-> frame[overlapPairs[k]].phoneme,
                                phoneme2 |-> frame[overlapPairs[k] + 1].phoneme,
                                overlap_ms |-> 0 - gap(overlapPairs[k]),
                                time |-> frame[overlapPairs[k]].end_time]]
                    /\ Len(RecordsOfFile(timing_issues.gaps, f))
                       + Len(RecordsOfFile(timing_issues.overlaps, f))
                       + Len(SelectSeq(pairs, IsAdjacent)) = Len(frame) - 1
            /\ \A k \in 1..Len(timing_issues.gaps) :
                   timing_issues.gaps[k].file \in FileSet(phoneme_df)
            /\ \A k \in 1..Len(timing_issues.overlaps) :
                   timing_issues.overlaps[k].file \in FileSet(phoneme_df)

\* C2 witness: the check ran on one file holding [0,10], [11,20], [18,30]
\* and [32,40] in some row order: the first pair (gap 1ms) has no record, the
\* second is the only overlap record (2ms), the third the only gap record
\* (2ms).
C2_Witness ==
    /\ "timing" \in called
    /\ Len(phoneme_df) = 4
    /\ {<<phoneme_df[i].file, phoneme_df[i].start_time, phoneme_df[i].end_time>> :
            i \in 1..Len(phoneme_df)}
       = {<<"f1", 0, 10>>, <<"f1", 11, 20>>, <<"f1", 18, 30>>, <<"f1", 32, 40>>}
    /\ phoneme_df[1].start_time = 32
    /\ Len(timing_issues.gaps) = 1
    /\ timing_issues.gaps[1].gap_ms = 2
    /\ timing_issues.gaps[1].time = 30
    /\ Len(timing_issues.overlaps) = 1
    /\ timing_issues.overlaps[1].overlap_ms = 2
    /\ timing_issues.overlaps[1].time = 20

\* the outlier records that name symbol p
RecordsOfSymbol(list, p) == LET OfSymbol(r) == r.phoneme = p IN SelectSeq(list, OfSymbol)

SymbolSet(df) == {df[i].phoneme : i \in 1..Len(df)}

\* n^2 times the sum of squared deviations of the durations of rows from
\* their mean
SqDevSum(rows) ==
    LET n == Len(rows)
        S == SumSeq(Column(rows, RowDuration))
        Dev2(r) == (n * r.duration - S) * (n * r.duration - S)
    IN  SumSeq(Column(rows, Dev2))

RECURSIVE GCD(_, _)
GCD(a, b) == IF b = 0 THEN a ELSE GCD(b, a % b)

\* a fraction of non-negative numerator and positive denominator in lowest
\* terms
Lowest(f) == [num |-> f.num \div GCD(f.num, f.den), den |-> f.den \div GCD(f.num, f.den)]

\* With z = |duration - mean| / std, std^2 = (sum of squared deviations) /
\* (n - ddof), and z = 0 when std = 0: whether z > 3 for row r of rows.
\* z^2 = (n*d - S)^2 * (n - ddof) / SqDevSum.
ZAboveThree(rows, r, ddof) ==
    LET n == Len(rows)
        S == SumSeq(Column(rows, RowDuration))
    IN  /\ SqDevSum(rows) > 0
        /\ (n - ddof) * (n * r.duration - S) * (n * r.duration - S) > 9 * SqDevSum(rows)

\* the outlier records of symbol p are the members with z > 3, in table
\* order
FlaggedAsClaimed(df, list, p, ddof) ==
    LET rows == RowsOfSymbol(df, p)
        Flagged(r) == ZAboveThree(rows, r, ddof)
        Shown(r) == [file |-> r.file, phoneme |-> r.phoneme,
                     duration |-> r.duration, time |-> r.start_time]
        Row(o) == [file |-> o.file, phoneme |-> o.phoneme,
                   duration |-> o.duration, time |-> o.time]
    IN  Column(RecordsOfSymbol(list, p), Row) = Column(SelectSeq(rows, Flagged), Shown)

\* each outlier record of symbol p carries the group's mean and its own z
\* (as z^2)
ValuesAsClaimed(df, list, p, ddof) ==
    LET rows == RowsOfSymbol(df, p)
        n == Len(rows)
        S == SumSeq(Column(rows, RowDuration))
        recs == RecordsOfSymbol(list, p)
    IN  \A k \in 1..Len(recs) :
            /\ recs[k].mean_duration.den > 0
            /\ Lowest(recs[k].mean_duration) = Lowest([num |-> S, den |-> n])
            /\ recs[k].z_score.den > 0
            /\ Lowest(recs[k].z_score) =
                   Lowest([num |-> (n - ddof) * (n * recs[k].duration - S)
                                   * (n * recs[k].duration - S),
                           den |-> SqDevSum(rows)])

\* C3 as stated: after check_phoneme_distribution, for every symbol with at
\* least 3 occurrences the members flagged are exactly those with z > 3, z
\* computed with the group's mean and POPULATION standard deviation
\* (denominator n), z = 0 when std = 0.
C3_PopulationStd ==
    "distribution" \in called =>
        \A p \in SymbolSet(phoneme_df) :
            Len(RowsOfSymbol(phoneme_df, p)) >= 3 =>
                FlaggedAsClaimed(phoneme_df, statistical_outliers, p, 0)

\* C3 amended: the members flagged are exactly those with z > 3, z computed
\* with the group's mean and SAMPLE standard deviation (denominator n - 1),
\* which is what Series.std() computes, and z = 0 when std = 0 (a group of
\* equal durations yields no outlier); the records carry that mean and z.
C3_SampleStd ==
    "distribution" \in called =>
        \A p \in SymbolSet(phoneme_df) :
            Len(RowsOfSymbol(phoneme_df, p)) >= 3 =>
                /\ FlaggedAsClaimed(phoneme_df, statistical_outliers, p, 1)
                /\ ValuesAsClaimed(phoneme_df, statistical_outliers, p, 1)

\* C3 witness: the check ran on ten AE1 of 50ms and one of 60ms and flagged
\* the one of 60ms (z = 10 / sqrt(11) > 3).
C3_Witness ==
    /\ "distribution" \in called
    /\ Len(phoneme_df) = 11
    /\ \A i \in 1..10 : phoneme_df[i] = CommonRow
    /\ phoneme_df[11].phoneme = "AE1" /\ phoneme_df[11].duration = 60
    /\ Len(statistical_outliers) = 1
    /\ statistical_outliers[1].duration = 60

\* C4: after check_phoneme_distribution every outlier record names a symbol
\* with at least 3 rows in the table: a symbol with fewer than 3 occurrences
\* in the whole corpus has no record.
C4_SampleSizeFloor ==
    "distribution" \in called =>
        /\ \A p \in SymbolSet(phoneme_df) :
               Len(RowsOfSymbol(phoneme_df, p)) < 3 =>
                   RecordsOfSymbol(statistical_outliers, p) = <<>>
        /\ \A k \in 1..Len(statistical_outliers) :
               Len(RowsOfSymbol(phoneme_df, statistical_outliers[k].phoneme)) >= 3

\* C4 witness: the check ran on a corpus of ten AE1 of 50ms and one or two B
\* of another duration, in two files, and recorded nothing for B.
C4_Witness ==
    /\ "distribution" \in called
    /\ Len(RowsOfSymbol(phoneme_df, "AE1")) = 10
    /\ \A i \in 1..Len(phoneme_df) :
           phoneme_df[i].phoneme = "AE1" => phoneme_df[i].duration = 50
    /\ Len(RowsOfSymbol(phoneme_df, "B")) \in {1, 2}
    /\ \A i \in 1..Len(phoneme_df) :
           phoneme_df[i].phoneme = "B" => phoneme_df[i].duration # 50
    /\ RecordsOfSymbol(statistical_outliers, "B") = <<>>

\* the durations given to the rows of symbol B in the second table
AltDurations == {50, 60, 90}

\* df with the duration of every row of symbol p set to d
WithDuration(df, p, d) ==
    [i \in 1..Len(df) |->
        IF df[i].phoneme = p
        THEN [df[i] EXCEPT !.duration = d, !.end_time = df[i].start_time + d]
        ELSE df[i]]

\* df without the rows of symbol p
WithoutSymbol(df, p) == LET Other(r) == r.phoneme # p IN SelectSeq(df, Other)

\* The tables that agree with df on every row of a symbol other than p and
\* differ in the durations or in the number of the rows of p.
Variants(df, p) ==
    {WithDuration(df, p, d) : d \in AltDurations}
    \cup {WithoutSymbol(df, p)}
    \cup {Append(df, PhonemeRow("f2", p, 0, d)) : d \in AltDurations}
    \cup {<<PhonemeRow("f2", p, 0, d)>> \o df : d \in AltDurations}

\* the z-score (as z^2) the check computes for every row of symbol p
ZScoresOf(df, p) ==
    LET data == phoneme_data(df, p)
        rows == phoneme_rows(df, p)
    IN  [i \in 1..Len(rows) |->
            z_score_sq(rows[i].duration, mean_of(data), variance(data))]

\* C5: for the table the check ran on and every table that differs from it
\* only in the durations or the number of the rows of symbol B, the outlier
\* records of symbol AE1 and the z-scores of the AE1 rows are the same.
C5_SymbolLocal ==
    "distribution" \in called =>
        \A alt \in Variants(phoneme_df, "B") :
            /\ RecordsOfSymbol(StatisticalOutliersOf(alt), "AE1")
                   = RecordsOfSymbol(statistical_outliers, "AE1")
            /\ Len(RowsOfSymbol(phoneme_df, "AE1")) >= 3 =>
                   ZScoresOf(alt, "AE1") = ZScoresOf(phoneme_df, "AE1")

\* C5 witness: the check ran on a table with a row of B and eleven rows of
\* AE1, one of which it flagged.
C5_Witness ==
    /\ "distribution" \in called
    /\ Len(RowsOfSymbol(phoneme_df, "B")) >= 1
    /\ Len(RowsOfSymbol(phoneme_df, "AE1")) = 11
    /\ Len(RecordsOfSymbol(statistical_outliers, "AE1")) = 1

\* the phonemes of the word's file that start no more than 1ms before the
\* word and end no more than 1ms after it, in table order
MatchedAsClaimed(df, word) ==
    LET Inside(r) == /\ r.file = word.file
                     /\ word.start_time - r.start_time <= 1
                     /\ r.end_time - word.end_time <= 1
    IN  SelectSeq(df, Inside)

MatchedSum(df, word) == SumSeq(Column(MatchedAsClaimed(df, word), RowDuration))

IssuesOfKind(list, kind) == LET OfKind(r) == r.issue = kind IN SelectSeq(list, OfKind)

\* C6: the phonemes check_word_phoneme_consistency matches to a word are
\* exactly the phonemes of the same file with start >= word.start - 1ms and
\* end <= word.end + 1ms; after the check, the no_phonemes records are
\* exactly the words whose matched set is empty, in table order.
C6_MatchedPhonemes ==
    "consistency" \in called =>
        /\ \A w \in 1..Len(word_df) :
               LET matched == phonemes_in_word(phoneme_df, word_df[w])
               IN  /\ matched = MatchedAsClaimed(phoneme_df, word_df[w])
                   /\ \A k \in 1..Len(matched) :
                          /\ matched[k].file = word_df[w].file
                          /\ matched[k].start_time >= word_df[w].start_time - 1
                          /\ matched[k].end_time <= word_df[w].end_time + 1
        /\ LET Unmatched(word) == MatchedAsClaimed(phoneme_df, word) = <<>>
               Shown(word) == [file |-> word.file, word |-> word.word,
                               issue |-> "no_phonemes", time |-> word.start_time]
           IN  IssuesOfKind(consistency_issues, "no_phonemes")
                   = Column(SelectSeq(word_df, Unmatched), Shown)

\* C6 witness: the check ran on the word [100,200] of f1 and a table with a
\* phoneme of f1 starting 2ms before the word, one starting 1ms before it
\* and a phoneme of f2 inside the word's span: only the second is counted
\* (phoneme_sum = 51).
C6_Witness ==
    /\ "consistency" \in called
    /\ word_df = <<WordRow("f1", "cab", 100, 200)>>
    /\ {phoneme_df[i] : i \in 1..Len(phoneme_df)}
       = {PhonemeRow("f1", "B", 98, 150), PhonemeRow("f1", "B", 99, 150),
          PhonemeRow("f2", "T", 100, 150)}
    /\ Len(consistency_issues) = 1
    /\ consistency_issues[1].issue = "duration_mismatch"
    /\ consistency_issues[1].phoneme_sum = 51

\* C7: after check_word_phoneme_consistency the duration_mismatch records
\* are exactly the words with at least one matched phoneme and |word.duration
\* - sum of matched durations| > 10ms, in table order, each carrying that
\* absolute difference as difference_ms; every word has at most one record
\* (no_phonemes or duration_mismatch).
C7_DurationMismatch ==
    "consistency" \in called =>
        LET Diff(word) == abs(word.duration - MatchedSum(phoneme_df, word))
            Matched(word) == MatchedAsClaimed(phoneme_df, word) # <<>>
            Mismatch(word) == Matched(word) /\ Diff(word) > 10
            HasIssue(word) == ~Matched(word) \/ Mismatch(word)
            Shown(word) == [file |-> word.file, word |-> word.word,
                            issue |-> "duration_mismatch",
                            word_duration |-> word.duration,
                            phoneme_sum |-> MatchedSum(phoneme_df, word),
                            difference_ms |-> Diff(word),
                            time |-> word.start_time]
            Key(r) == [file |-> r.file, word |-> r.word, time |-> r.time]
            WordKey(word) == [file |-> word.file, word |-> word.word,
                              time |-> word.start_time]
        IN  /\ IssuesOfKind(consistency_issues, "duration_mismatch")
                   = Column(SelectSeq(word_df, Mismatch), Shown)
            /\ Column(consistency_issues, Key)
                   = Column(SelectSeq(word_df, HasIssue), WordKey)

\* C7 witness: the check ran on the word [100,200] with the phonemes
\* [100,150] and [150,189] (sum 89ms) and recorded a mismatch of 11ms.
C7_Witness ==
    /\ "consistency" \in called
    /\ word_df = <<WordRow("f1", "cab", 100, 200)>>
    /\ phoneme_df = <<PhonemeRow("f1", "B", 100, 150), PhonemeRow("f1", "AE1", 150, 189)>>
    /\ Len(consistency_issues) = 1
    /\ consistency_issues[1].issue = "duration_mismatch"
    /\ consistency_issues[1].difference_ms = 11

\* C8: once generate_quality_report has printed the grade, with error_rate =
\* total_issues / total_phonemes * 100: the grade is EXCELLENT iff
\* error_rate < 5, GOOD iff 5 <= error_rate < 10, FAIR iff 10 <= error_rate
\* < 20 and POOR iff error_rate >= 20 (so exactly 5 is GOOD, exactly 10 FAIR,
\* exactly 20 POOR), and it is one of the four.
C8_GradeThresholds ==
    pc \in {"return", "done"} =>
        LET n == Len(phoneme_df)
            pct == 100 * total_issues      \* error_rate * n
        IN  /\ n > 0
            /\ grade \in {"EXCELLENT", "GOOD", "FAIR", "POOR"}
            /\ grade = "EXCELLENT" <=> pct < 5 * n
            /\ grade = "GOOD" <=> (5 * n <= pct /\ pct < 10 * n)
            /\ grade = "FAIR" <=> (10 * n <= pct /\ pct < 20 * n)
            /\ grade = "POOR" <=> pct >= 20 * n

\* C8 witness: a report on 20 phonemes with 1 issue (exactly 5%) was graded
\* GOOD.
C8_Witness ==
    /\ pc = "done"
    /\ Len(phoneme_df) = 20
    /\ total_issues = 1
    /\ grade = "GOOD"

\* C9: in the compiled report every count is the length of its list under
\* details; once computed, total_issues is the sum of the eight counts and
\* error_rate is total_issues / total_phonemes * 100.
C9_ReportCounts ==
    /\ report # <<>> =>
           LET r == report[1]
               d == r.details
           IN  /\ r.duration_anomalies.too_short_vowels
                      = Len(d.duration_anomalies.too_short_vowels)
               /\ r.duration_anomalies.too_long_vowels
                      = Len(d.duration_anomalies.too_long_vowels)
               /\ r.duration_anomalies.too_short_consonants
                      = Len(d.duration_anomalies.too_short_consonants)
               /\ r.duration_anomalies.too_long_consonants
                      = Len(d.duration_anomalies.too_long_consonants)
               /\ r.timing_issues.gaps = Len(d.timing_issues.gaps)
               /\ r.timing_issues.overlaps = Len(d.timing_issues.overlaps)
               /\ r.statistical_outliers = Len(d.statistical_outliers)
               /\ r.word_phoneme_mismatches = Len(d.consistency_issues)
               /\ r.total_phonemes = Len(phoneme_df)
    /\ pc \in {"error_rate", "failed", "grade", "return", "done"} =>
           LET d == report[1].details
           IN  total_issues =
                   Len(d.duration_anomalies.too_short_vowels)
                   + Len(d.duration_anomalies.too_long_vowels)
                   + Len(d.duration_anomalies.too_short_consonants)
                   + Len(d.duration_anomalies.too_long_consonants)
                   + Len(d.timing_issues.gaps) + Len(d.timing_issues.overlaps)
                   + Len(d.statistical_outliers) + Len(d.consistency_issues)
    /\ error_rate # <<>> =>
           /\ error_rate[1].den > 0
           /\ error_rate[1].num * report[1].total_phonemes
                  = 100 * total_issues * error_rate[1].den

\* C9 witness: a report with a non-zero count in each of the eight
\* categories was returned.
C9_Witness ==
    /\ pc = "done"
    /\ report[1].duration_anomalies.too_short_vowels > 0
    /\ report[1].duration_anomalies.too_long_vowels > 0
    /\ report[1].duration_anomalies.too_short_consonants > 0
    /\ report[1].duration_anomalies.too_long_consonants > 0
    /\ report[1].timing_issues.gaps > 0
    /\ report[1].timing_issues.overlaps > 0
    /\ report[1].statistical_outliers > 0
    /\ report[1].word_phoneme_mismatches > 0
    /\ error_rate # <<>>

\* C10: on a phoneme table with zero records generate_quality_report never
\* computes an error rate, prints a grade or returns a report: it ends with
\* the ZeroDivisionError of the error-rate computation, and that is the only
\* way it fails.
C10_EmptyTableFails ==
    /\ Len(phoneme_df) = 0 =>
           /\ pc \notin {"grade", "return", "done"}
           /\ error_rate = <<>>
           /\ grade = ""
           /\ outcome # <<>> => outcome[1].kind = "ZeroDivisionError"
    /\ pc = "failed" =>
           /\ Len(phoneme_df) = 0
           /\ outcome = <<[kind |-> "ZeroDivisionError", value |-> <<>>]>>

\* C10 witness: generate_quality_report on an empty phoneme table has ended
\* in the ZeroDivisionError.
C10_Witness ==
    /\ Len(phoneme_df) = 0
    /\ pc = "failed"
    /\ outcome = <<[kind |-> "ZeroDivisionError", value |-> <<>>]>>

----------------------------------------------------------------------------
(* The four checks as operations on the checker (lines 54-308).            *)

\* The lists da, ti, so, ci are what the checks in c return when each is the
\* only call made on the tables; a check not in c has left its list as it
\* was constructed.
ResultsAsRunAlone(c, da, ti, so, ci) ==
    /\ da = IF "duration" \in c
            THEN DurationAnomaliesOf(phoneme_df, duration_thresholds)
            ELSE EmptyDurationAnomalies
    /\ ti \in IF "timing" \in c
              THEN {TimingIssuesOf(phoneme_df, o) : o \in SortedFrames(phoneme_df)}
              ELSE {EmptyTimingIssues}
    /\ so = IF "distribution" \in c
            THEN StatisticalOutliersOf(phoneme_df)
            ELSE <<>>
    /\ ci = IF "consistency" \in c
            THEN ConsistencyIssuesOf(phoneme_df, word_df)
            ELSE <<>>

\* the checks whose list this step changes
ListsChanged ==
    {c \in {"duration", "timing", "distribution", "consistency"} :
        \/ c = "duration" /\ duration_anomalies' # duration_anomalies
        \/ c = "timing" /\ timing_issues' # timing_issues
        \/ c = "distribution" /\ statistical_outliers' # statistical_outliers
        \/ c = "consistency" /\ consistency_issues' # consistency_issues}

\* C11: no step of the checker changes the phoneme table, the word table or
\* the duration thresholds; a single check changes no list but its own (and
\* only the timing check, whose sort is not stable, can return another value
\* when called again); and after the checks were called, in whatever order
\* and number, every check called holds a value it returns when run alone on
\* the tables.
C11_ChecksReadOnly ==
    [][/\ phoneme_df' = phoneme_df
       /\ word_df' = word_df
       /\ duration_thresholds' = duration_thresholds
       /\ (pc = "idle" /\ pc' = "idle") =>
              /\ Cardinality(ListsChanged) <= 1
              /\ Cardinality(called' \ called) <= 1
              /\ ListsChanged \subseteq (called' \ called) \cup {"timing"}
              /\ ResultsAsRunAlone(called', duration_anomalies', timing_issues',
                                   statistical_outliers', consistency_issues')]_vars

\* C11 witness: the consistency and the distribution check were called, and
\* not the two checks generate_quality_report runs before them; both found
\* issues on an unsorted table the duration check would flag too.
C11_Witness ==
    /\ pc = "idle"
    /\ called = {"consistency", "distribution"}
    /\ consistency_issues # <<>>
    /\ statistical_outliers # <<>>
    /\ duration_anomalies = EmptyDurationAnomalies
    /\ DurationAnomaliesOf(phoneme_df, duration_thresholds) # EmptyDurationAnomalies
    /\ timing_issues = EmptyTimingIssues

----------------------------------------------------------------------------
(* scripts/acoustic_analysis.py: the samplers (lines 93-230).              *)
(*                                                                         *)
(* A sound is what the engine yields on it: for each of the formant, pitch *)
(* and intensity analyses whether the analysis object can be made at all   *)
(* (to_formant_burg, to_pitch, to_intensity), from which time on a query   *)
(* of the object raises, and for every track the stretch of time on which  *)
(* it is defined and its value there (in Hz or dB, an integer); outside    *)
(* the stretch the engine answers "undefined" (nan).  A value the code may *)
(* hold or not (None, nan) is <<>> or <<v>>.  A standard deviation is      *)
(* represented by its square, as a fraction.                               *)

\* a track defined on [from, to) with the value `value`
Track(from, to, value) == [from |-> from, to |-> to, value |-> value]

\* call(object, "Get value at time", ..., t, ...) on a track
GetValueAtTime(track, t) ==
    IF track.from <= t /\ t < track.to THEN <<track.value>> ELSE <<>>

\* `if f and not np.isnan(f)`: neither 0 nor nan
IsValidSample(f) == f # <<>> /\ f[1] # 0

\* np.mean, np.std (population), np.min, np.max of a non-empty list
np_mean(values) == [num |-> SumSeq(values), den |-> Len(values)]

np_std(values) ==
    LET n == Len(values)
        S == SumSeq(values)
        Sq == SumSeq([i \in 1..n |-> values[i] * values[i]])
    IN  [num |-> n * Sq - S * S, den |-> n * n]

np_min(values) ==
    CHOOSE m \in {values[i] : i \in 1..Len(values)} :
        \A i \in 1..Len(values) : m <= values[i]

np_max(values) ==
    CHOOSE m \in {values[i] : i \in 1..Len(values)} :
        \A i \in 1..Len(values) : m >= values[i]

Zero == [num |-> 0, den |-> 1]

\* np.linspace(start_time, end_time, 3)
linspace(start_time, end_time) ==
    <<start_time, (start_time + end_time) \div 2, end_time>>

\* np.arange(start_time, end_time, 0.01)
RECURSIVE arange(_, _)
arange(start_time, end_time) ==
    IF start_time >= end_time THEN <<>>
    ELSE <<start_time>> \o arange(start_time + 10, end_time)

\* the valid samples of `track` at `times`, where a query raises from
\* `fails_from` on and the loop skips the time (lines 126-139, track by track)
RECURSIVE FormantValues(_, _, _)
FormantValues(track, times, fails_from) ==
    IF times = <<>> THEN <<>>
    ELSE LET t == Head(times)
             f == GetValueAtTime(track, t)
             rest == FormantValues(track, Tail(times), fails_from)
         IN  IF t < fails_from /\ IsValidSample(f) THEN <<f[1]>> \o rest ELSE rest

\* lines 146, 148, 150: np.std(values) if len(values) > 1 else 0
FormantStd(values) == IF Len(values) > 1 THEN <<np_std(values)>> ELSE <<Zero>>

\* lines 147, 149: np.mean(values) if values else None
FormantMean(values) == IF values # <<>> THEN <<np_mean(values)>> ELSE <<>>

\* what a sampler does: it raises, or it returns None (value = <<>>) or a
\* dict (value = <<d>>)
Raised == [raised |-> TRUE, value |-> <<>>]
Returned(v) == [raised |-> FALSE, value |-> v]

\* extract_formants (lines 93-151)
extract_formants(sound, start_time, end_time) ==
    LET formant == sound.formant
        duration == end_time - start_time
        times == linspace(start_time, end_time)
        f1_values == FormantValues(formant.f1, times, formant.fails_from)
        f2_values == FormantValues(formant.f2, times, formant.fails_from)
        f3_values == FormantValues(formant.f3, times, formant.fails_from)
    IN  IF ~formant.object THEN Raised
        ELSE IF duration < 30 THEN Returned(<<>>)
        ELSE IF f1_values = <<>> THEN Returned(<<>>)
        ELSE Returned(<<[f1_mean |-> <<np_mean(f1_values)>>,
                         f1_std |-> FormantStd(f1_values),
                         f2_mean |-> FormantMean(f2_values),
                         f2_std |-> FormantStd(f2_values),
                         f3_mean |-> FormantMean(f3_values),
                         f3_std |-> FormantStd(f3_values)]>>)

\* the valid samples on the 10ms grid (lines 173-179, 212-218)
RECURSIVE GridValues(_, _)
GridValues(track, times) ==
    IF times = <<>> THEN <<>>
    ELSE LET f == GetValueAtTime(track, Head(times))
             rest == GridValues(track, Tail(times))
         IN  IF IsValidSample(f) THEN <<f[1]>> \o rest ELSE rest

\* a query of the object raises at one of the times
QueryRaises(analysis, times) ==
    \E i \in 1..Len(times) : times[i] >= analysis.fails_from

\* extract_pitch (lines 153-192): everything is inside one try
extract_pitch(sound, start_time, end_time) ==
    LET pitch == sound.pitch
        times == arange(start_time, end_time)
        pitch_values == GridValues(pitch.f0, times)
    IN  IF ~pitch.object \/ QueryRaises(pitch, times) THEN Returned(<<>>)
        ELSE IF pitch_values = <<>> THEN Returned(<<>>)
        ELSE Returned(<<[f0_mean |-> np_mean(pitch_values),
                         f0_std |-> np_std(pitch_values),
                         f0_min |-> np_min(pitch_values),
                         f0_max |-> np_max(pitch_values),
                         f0_range |-> np_max(pitch_values) - np_min(pitch_values)]>>)

\* extract_intensity (lines 194-230): everything is inside one try
extract_intensity(sound, start_time, end_time) ==
    LET intensity == sound.intensity
        times == arange(start_time, end_time)
        intensity_values == GridValues(intensity.db, times)
    IN  IF ~intensity.object \/ QueryRaises(intensity, times) THEN Returned(<<>>)
        ELSE IF intensity_values = <<>> THEN Returned(<<>>)
        ELSE Returned(<<[intensity_mean |-> np_mean(intensity_values),
                         intensity_std |-> np_std(intensity_values),
                         intensity_min |-> np_min(intensity_values),
                         intensity_max |-> np_max(intensity_values)]>>)

----------------------------------------------------------------------------
(* analyze_phoneme (lines 232-274).  A label and a tier name are strings   *)
(* the code searches and strips: they are sequences of characters.         *)

\* the members of self.vowels (lines 50-62) among the labels used below
vowel_labels == {<<"A", "E", "1">>, <<"I", "Y", "1">>}

\* A slip that takes the end of the interval for its length.
interval_duration_EndOnly(start_time, end_time) == end_time

\* lines 245 and 327: the duration stored with an interval
interval_duration(start_time, end_time) == end_time - start_time

\* A slip that samples the formants of every phoneme long enough.
InvokesFormants_AnyKind(is_vowel, duration) == duration > 30

\* line 259: the formant sampler is called
InvokesFormants(is_vowel, duration) == is_vowel /\ duration > 30

\* measurements.update(d) after `if d:`, for the value a sampler returned
Update(measurements, returned) ==
    IF returned.value # <<>> THEN returned.value[1] @@ measurements
    ELSE measurements

\* analyze_phoneme: whether it raised, the record it built and the samplers
\* it called, in call order
analyze_phoneme(sound, phoneme_label, start_time, end_time) ==
    LET duration == interval_duration(start_time, end_time)
        is_vowel == phoneme_label \in vowel_labels
        measurements == [phoneme |-> phoneme_label, start_time |-> start_time,
                         end_time |-> end_time, duration |-> duration,
                         is_vowel |-> is_vowel]
        invoked == InvokesFormants(is_vowel, duration)
        formants == extract_formants(sound, start_time, end_time)
        pitch == extract_pitch(sound, start_time, end_time)
        intensity == extract_intensity(sound, start_time, end_time)
        with_formants == IF invoked THEN Update(measurements, formants)
                         ELSE measurements
    IN  IF invoked /\ formants.raised
        THEN [raised |-> TRUE, measurements |-> measurements,
              calls |-> <<"formants">>]
        ELSE [raised |-> FALSE,
              measurements |-> Update(Update(with_formants, pitch), intensity),
              calls |-> (IF invoked THEN <<"formants">> ELSE <<>>)
                        \o <<"pitch", "intensity">>]

----------------------------------------------------------------------------
(* analyze_file (lines 276-350).                                           *)

upper_case ==
    <<"A", "B", "C", "D", "E", "F", "G", "H", "I", "J", "K", "L", "M",
      "N", "O", "P", "Q", "R", "S", "T", "U", "V", "W", "X", "Y", "Z">>

lower_case ==
    <<"a", "b", "c", "d", "e", "f", "g", "h", "i", "j", "k", "l", "m",
      "n", "o", "p", "q", "r", "s", "t", "u", "v", "w", "x", "y", "z">>

\* str.lower()
lower(str) ==
    [i \in 1..Len(str) |->
        IF \E k \in 1..Len(upper_case) : upper_case[k] = str[i]
        THEN lower_case[CHOOSE k \in 1..Len(upper_case) : upper_case[k] = str[i]]
        ELSE str[i]]

\* `sub in str`
Contains(sub, str) ==
    \E k \in 0..(Len(str) - Len(sub)) : \A i \in 1..Len(sub) : str[k + i] = sub[i]

whitespace == {" ", "\t", "\n"}

\* str.strip()
RECURSIVE lstrip(_)
lstrip(str) ==
    IF str # <<>> /\ Head(str) \in whitespace THEN lstrip(Tail(str)) ELSE str

RECURSIVE rstrip(_)
rstrip(str) ==
    IF str # <<>> /\ str[Len(str)] \in whitespace
    THEN rstrip(SubSeq(str, 1, Len(str) - 1))
    ELSE str

strip(str) == rstrip(lstrip(str))

\* A slip that forgets strip(): only the empty label is blank.
IsLabelled_NotStripped(label) == label # <<>>

\* lines 319, 335: `if label and label.strip()`
IsLabelled(label) == label # <<>> /\ strip(label) # <<>>

\* A slip that loads the annotation only: a missing recording goes unnoticed.
LoadFails_AnnotationOnly(file) == ~file.textgrid_loads

\* load_audio_and_textgrid (lines 72-91) returns (None, None)
LoadFails(file) == ~file.audio_loads \/ ~file.textgrid_loads

NoTierSelected == [word_tier_idx |-> <<>>, phone_tier_idx |-> <<>>]

\* A slip that keeps the first tier matching a kind.
TierStep_FirstMatchWins(selected, i, tier_name) ==
    IF Contains(<<"w", "o", "r", "d">>, lower(tier_name))
    THEN IF selected.word_tier_idx = <<>>
         THEN [selected EXCEPT !.word_tier_idx = <<i>>] ELSE selected
    ELSE IF Contains(<<"p", "h", "o", "n", "e">>, lower(tier_name))
    THEN IF selected.phone_tier_idx = <<>>
         THEN [selected EXCEPT !.phone_tier_idx = <<i>>] ELSE selected
    ELSE selected

\* the body of the loop over the tiers (lines 308-312)
TierStep(selected, i, tier_name) ==
    IF Contains(<<"w", "o", "r", "d">>, lower(tier_name))
    THEN [selected EXCEPT !.word_tier_idx = <<i>>]
    ELSE IF Contains(<<"p", "h", "o", "n", "e">>, lower(tier_name))
    THEN [selected EXCEPT !.phone_tier_idx = <<i>>]
    ELSE selected

\* lines 296-312: for i in range(1, n_tiers + 1)
RECURSIVE TierLoop(_, _, _)
TierLoop(selected, tiers, i) ==
    IF i > Len(tiers) THEN selected
    ELSE TierLoop(TierStep(selected, i, tiers[i].name), tiers, i + 1)

SelectTiers(tiers) == TierLoop(NoTierSelected, tiers, 1)

\* `if word_tier_idx:`, `if phone_tier_idx:`: neither None nor 0
IsTruthy(idx) == idx # <<>> /\ idx[1] # 0

\* A slip that extracts the words only next to a phone tier.
ExtractsWords_NeedsBothTiers(selected) ==
    IsTruthy(selected.word_tier_idx) /\ IsTruthy(selected.phone_tier_idx)

\* line 315
ExtractsWords(selected) == IsTruthy(selected.word_tier_idx)

\* line 331
ExtractsPhonemes(selected) == IsTruthy(selected.phone_tier_idx)

\* lines 317-328: the loop over the intervals of the word tier
RECURSIVE WordLoop(_, _, _, _)
WordLoop(word_data, basename, intervals, j) ==
    IF j > Len(intervals) THEN word_data
    ELSE LET label == intervals[j].label
             start == intervals[j].start
             end == intervals[j].end
         IN  WordLoop(IF IsLabelled(label)
                      THEN Append(word_data,
                                  [file |-> basename, word |-> label,
                                   start_time |-> start, end_time |-> end,
                                   duration |-> interval_duration(start, end)])
                      ELSE word_data,
                      basename, intervals, j + 1)

\* one call of a sampler, as analyze_file makes it
SamplerCall(basename, label, start, end, sampler) ==
    [sampler |-> sampler, file |-> basename, phoneme |-> label,
     start_time |-> start, end_time |-> end]

\* lines 333-345: the loop over the intervals of the phone tier; it ends
\* where analyze_phoneme raises
RECURSIVE PhonemeLoop(_, _, _, _, _)
PhonemeLoop(acc, basename, sound, intervals, j) ==
    IF j > Len(intervals) THEN acc
    ELSE LET label == intervals[j].label
             start == intervals[j].start
             end == intervals[j].end
             result == analyze_phoneme(sound, label, start, end)
             calls == [k \in 1..Len(result.calls) |->
                          SamplerCall(basename, label, start, end, result.calls[k])]
         IN  IF ~IsLabelled(label)
             THEN PhonemeLoop(acc, basename, sound, intervals, j + 1)
             ELSE IF result.raised
             THEN [raised |-> TRUE, phoneme_data |-> acc.phoneme_data,
                   calls |-> acc.calls \o calls]
             ELSE PhonemeLoop(
                      [raised |-> FALSE,
                       phoneme_data |->
                           Append(acc.phoneme_data,
                                  [file |-> basename] @@ result.measurements),
                       calls |-> acc.calls \o calls],
                      basename, sound, intervals, j + 1)

\* analyze_file: it returns (None, None), or the two tables of the file, or
\* the error of a sampler passes through it; with the sampler calls made
analyze_file(file) ==
    LET selected == SelectTiers(file.tiers)
        word_data ==
            IF ExtractsWords(selected)
            THEN WordLoop(<<>>, file.basename,
                          file.tiers[selected.word_tier_idx[1]].intervals, 1)
            ELSE <<>>
        phonemes ==
            IF ExtractsPhonemes(selected)
            THEN PhonemeLoop([raised |-> FALSE, phoneme_data |-> <<>>, calls |-> <<>>],
                             file.basename, file.sound,
                             file.tiers[selected.phone_tier_idx[1]].intervals, 1)
            ELSE [raised |-> FALSE, phoneme_data |-> <<>>, calls |-> <<>>]
    IN  IF LoadFails(file) \/ ~file.is_textgrid
        THEN [status |-> "none", phoneme_data |-> <<>>, word_data |-> <<>>,
              calls |-> <<>>]
        ELSE IF phonemes.raised
        THEN [status |-> "raised", phoneme_data |-> <<>>, word_data |-> <<>>,
              calls |-> phonemes.calls]
        ELSE [status |-> "tables", phoneme_data |-> phonemes.phoneme_data,
              word_data |-> word_data, calls |-> phonemes.calls]

----------------------------------------------------------------------------
(* analyze_all_files (lines 352-384), save_results (lines 386-456) and     *)
(* main (lines 459-490).                                                   *)

\* pd.concat(frames, ignore_index=True) if frames else pd.DataFrame()
RECURSIVE concat(_)
concat(frames) ==
    IF frames = <<>> THEN <<>> ELSE Head(frames) \o concat(Tail(frames))

\* A slip that saves whatever analyze_all_files returned.
HasData_Always(phonemes) == TRUE

\* line 485: `not phoneme_df.empty`
HasData(phonemes) == Len(phonemes) > 0

\* no checker is constructed beside the analyzer
CheckerNotConstructed ==
    /\ phoneme_df = <<>>
    /\ word_df = <<>>
    /\ duration_thresholds = DurationThresholds
    /\ pc = "none"
    /\ duration_anomalies = EmptyDurationAnomalies
    /\ timing_issues = EmptyTimingIssues
    /\ statistical_outliers = <<>>
    /\ consistency_issues = <<>>
    /\ called = {}
    /\ report = <<>>
    /\ output_file = <<>>
    /\ total_issues = 0
    /\ error_rate = <<>>
    /\ grade = ""
    /\ outcome = <<>>

\* main() has constructed the analyzer (line 479) on a folder in which
\* glob() will find `files`
AnalyzerConstructed(files) ==
    /\ textgrid_files = files
    /\ main_pc = "constructed"
    /\ tg_index = 0
    /\ all_phoneme_data = <<>>
    /\ all_word_data = <<>>
    /\ combined = <<>>
    /\ sampler_calls = <<>>
    /\ output_folder = {}
    /\ main_outcome = ""
    /\ formants_call = <<>>

\* lines 363-369: the lists are empty and the loop starts
analyze_all_files_begin ==
    /\ main_pc = "constructed"
    /\ main_pc' = "loop"
    /\ tg_index' = 1
    /\ all_phoneme_data' = <<>>
    /\ all_word_data' = <<>>
    /\ UNCHANGED <<textgrid_files, combined, sampler_calls, output_folder,
                   main_outcome>>
    /\ UNCHANGED <<checker_vars, formants_call, pipeline_vars>>

\* lines 371-378: one turn of the loop; an error analyze_file lets through
\* ends analyze_all_files and main()
analyze_all_files_step ==
    /\ main_pc = "loop"
    /\ tg_index <= Len(textgrid_files)
    /\ LET result == analyze_file(textgrid_files[tg_index])
       IN  /\ sampler_calls' = sampler_calls \o result.calls
           /\ IF result.status = "raised"
              THEN /\ main_pc' = "done"
                   /\ main_outcome' = "PraatError"
                   /\ UNCHANGED <<tg_index, all_phoneme_data, all_word_data>>
              ELSE /\ tg_index' = tg_index + 1
                   /\ all_phoneme_data' =
                          IF result.status = "tables"
                          THEN Append(all_phoneme_data, result.phoneme_data)
                          ELSE all_phoneme_data
                   /\ all_word_data' =
                          IF result.status = "tables"
                          THEN Append(all_word_data, result.word_data)
                          ELSE all_word_data
                   /\ UNCHANGED <<main_pc, main_outcome>>
    /\ UNCHANGED <<textgrid_files, combined, output_folder>>
    /\ UNCHANGED <<checker_vars, formants_call, pipeline_vars>>

\* lines 380-384
analyze_all_files_return ==
    /\ main_pc = "loop"
    /\ tg_index > Len(textgrid_files)
    /\ combined' = <<[phonemes |-> concat(all_phoneme_data),
                      words |-> concat(all_word_data)]>>
    /\ main_pc' = "returned"
    /\ UNCHANGED <<textgrid_files, tg_index, all_phoneme_data, all_word_data,
                   sampler_calls, output_folder, main_outcome>>
    /\ UNCHANGED <<checker_vars, formants_call, pipeline_vars>>

\* lines 485-488 and save_results: the two tables are written (lines
\* 398-399), then the summary is computed and written (lines 408-439); a word
\* table without rows has no column `duration`, and line 421 raises KeyError
main_save_results ==
    /\ main_pc = "returned"
    /\ HasData(combined[1].phonemes)
    /\ IF Len(combined[1].words) = 0
       THEN /\ output_folder' = {"phoneme_measurements.csv", "word_measurements.csv"}
            /\ main_outcome' = "KeyError"
       ELSE /\ output_folder' = {"phoneme_measurements.csv", "word_measurements.csv",
                                 "analysis_summary.json"}
            /\ main_outcome' = "Analysis complete"
    /\ main_pc' = "done"
    /\ UNCHANGED <<textgrid_files, tg_index, all_phoneme_data, all_word_data,
                   combined, sampler_calls>>
    /\ UNCHANGED <<checker_vars, formants_call, pipeline_vars>>

\* lines 489-490
main_no_data ==
    /\ main_pc = "returned"
    /\ ~HasData(combined[1].phonemes)
    /\ main_outcome' = "No data extracted"
    /\ main_pc' = "done"
    /\ UNCHANGED <<textgrid_files, tg_index, all_phoneme_data, all_word_data,
                   combined, sampler_calls, output_folder>>
    /\ UNCHANGED <<checker_vars, formants_call, pipeline_vars>>

main ==
    \/ analyze_all_files_begin
    \/ analyze_all_files_step
    \/ analyze_all_files_return
    \/ main_save_results
    \/ main_no_data

----------------------------------------------------------------------------
(* The folders main() is run on.                                           *)

Never == 100000

\* a sound on which every analysis succeeds at every time
ClearSound ==
    [formant |-> [object |-> TRUE, fails_from |-> Never,
                  f1 |-> Track(0, Never, 500), f2 |-> Track(0, Never, 1500),
                  f3 |-> Track(0, Never, 2500)],
     pitch |-> [object |-> TRUE, fails_from |-> Never, f0 |-> Track(0, Never, 120)],
     intensity |-> [object |-> TRUE, fails_from |-> Never,
                    db |-> Track(0, Never, 60)]]

\* to_formant_burg raises on the sound
FormantCrashSound == [ClearSound EXCEPT !.formant.object = FALSE]

\* no second formant after 60ms
LateF2Sound == [ClearSound EXCEPT !.formant.f2 = Track(0, 60, 1500)]

\* unvoiced from 60ms on, and silent (0 dB) throughout
QuietSound ==
    [ClearSound EXCEPT !.pitch.f0 = Track(0, 60, 120),
                       !.intensity.db = Track(0, Never, 0)]

\* to_intensity raises, and there is no first formant
IntensityCrashSound ==
    [ClearSound EXCEPT !.intensity.object = FALSE, !.formant.f1 = Track(0, 0, 0)]

\* to_pitch raises, a query of the intensity raises from 100ms on, and there
\* is no first formant
DeadSound ==
    [ClearSound EXCEPT !.intensity.fails_from = 100, !.pitch.object = FALSE,
                       !.formant.f1 = Track(0, 0, 0)]

Interval(label, start, end) == [label |-> label, start |-> start, end |-> end]

Tier(name, intervals) == [name |-> name, intervals |-> intervals]

\* the word "cat" between two silences, and its phones, the last a consonant
\* of 50ms; a consonant and the vowel IY1 of exactly 30ms follow in "tea"
WordIntervals ==
    <<Interval(<<>>, 0, 20), Interval(<<"c", "a", "t">>, 20, 150),
      Interval(<<" ">>, 150, 160), Interval(<<"t", "e", "a">>, 160, 200)>>

PhoneIntervals ==
    <<Interval(<<>>, 0, 20), Interval(<<"K">>, 20, 40),
      Interval(<<"A", "E", "1">>, 40, 100), Interval(<<"T">>, 100, 150),
      Interval(<<" ", "\t">>, 150, 160), Interval(<<"T">>, 160, 170),
      Interval(<<"I", "Y", "1">>, 170, 200)>>

OtherIntervals == <<Interval(<<"x">>, 0, 200)>>

words == <<"w", "o", "r", "d", "s">>
phones == <<"p", "h", "o", "n", "e", "s">>

WordsAndPhones == <<Tier(words, WordIntervals), Tier(phones, PhoneIntervals)>>

\* a file as glob() finds it: what loading it yields, its sound, its tiers
File(audio_loads, textgrid_loads, is_textgrid, sound, tiers) ==
    [basename |-> "", audio_loads |-> audio_loads,
     textgrid_loads |-> textgrid_loads, is_textgrid |-> is_textgrid,
     sound |-> sound, tiers |-> tiers]

FileContents ==
    {File(TRUE, TRUE, TRUE, snd, WordsAndPhones) :
        snd \in {ClearSound, FormantCrashSound, LateF2Sound, QuietSound,
                 IntensityCrashSound, DeadSound}}
    \cup {File(FALSE, TRUE, TRUE, ClearSound, WordsAndPhones),
          File(TRUE, FALSE, TRUE, ClearSound, WordsAndPhones),
          File(TRUE, TRUE, FALSE, ClearSound, <<>>)}
    \cup {File(TRUE, TRUE, TRUE, ClearSound, tiers) :
             tiers \in {<<Tier(phones, PhoneIntervals)>>,
                        <<Tier(words, WordIntervals)>>,
                        <<Tier(<<"n", "o", "t", "e", "s">>, OtherIntervals)>>,
                        <<Tier(<<"W", "o", "r", "d", "s">>, OtherIntervals),
                          Tier(<<"P", "H", "O", "N", "E">>, OtherIntervals),
                          Tier(words, WordIntervals),
                          Tier(<<"m", "y", "P", "h", "o", "n", "e", "s">>,
                               PhoneIntervals)>>,
                        <<Tier(words, <<Interval(<<>>, 0, 200)>>),
                          Tier(phones, <<Interval(<<" ">>, 0, 200)>>)>>}}

MaxFiles == 2

\* the base names, in the order glob() yields the files
Basenames == <<"a", "b", "c", "d">>

\* the folders of at most n files
Folders(n) ==
    UNION {{[i \in 1..k |-> [contents[i] EXCEPT !.basename = Basenames[i]]] :
               contents \in [1..k -> FileContents]} : k \in 0..n}

InitAnalyzer ==
    /\ CheckerNotConstructed
    /\ PipelineNotConstructed
    /\ \E files \in Folders(MaxFiles) : AnalyzerConstructed(files)

SpecAnalyzer == InitAnalyzer /\ [][main]_vars

----------------------------------------------------------------------------
(* Properties of the analyzer.                                             *)

\* the rows of a table that carry the base name of textgrid_files[i]
RowsOfFile(table, i) ==
    LET OfFile(r) == r.file = textgrid_files[i].basename
    IN  SelectSeq(table, OfFile)

\* the audio or the annotation of textgrid_files[i] does not load
DoesNotLoad(i) ==
    ~textgrid_files[i].audio_loads \/ ~textgrid_files[i].textgrid_loads

\* C12: a file whose audio or annotation fails to load contributes no row to
\* the combined phoneme table nor to the combined word table; it does not end
\* the batch (the loop goes on past it, and an error that ends the batch
\* comes from a file that loaded); and the combined tables hold every record
\* of every other file, as analyze_file returns them for that file.
C12_UnloadableFileSkipped ==
    /\ main_outcome = "PraatError" => ~DoesNotLoad(tg_index)
    /\ combined # <<>> =>
           /\ tg_index = Len(textgrid_files) + 1
           /\ \A i \in 1..Len(textgrid_files) :
                  IF DoesNotLoad(i)
                  THEN /\ RowsOfFile(combined[1].phonemes, i) = <<>>
                       /\ RowsOfFile(combined[1].words, i) = <<>>
                  ELSE /\ RowsOfFile(combined[1].phonemes, i) =
                              analyze_file(textgrid_files[i]).phoneme_data
                       /\ RowsOfFile(combined[1].words, i) =
                              analyze_file(textgrid_files[i]).word_data

\* C12 witness: a folder of a file without audio and a file that loads; the
\* combined tables are returned and hold the seven records of the second.
C12_Witness ==
    /\ combined # <<>>
    /\ Len(textgrid_files) = 2
    /\ ~textgrid_files[1].audio_loads
    /\ textgrid_files[1].tiers = WordsAndPhones
    /\ ~DoesNotLoad(2)
    /\ Len(combined[1].phonemes) = 5
    /\ Len(combined[1].words) = 2

BaseFields == {"file", "phoneme", "start_time", "end_time", "duration", "is_vowel"}
FormantFields == {"f1_mean", "f1_std", "f2_mean", "f2_std", "f3_mean", "f3_std"}
PitchFields == {"f0_mean", "f0_std", "f0_min", "f0_max", "f0_range"}
IntensityFields ==
    {"intensity_mean", "intensity_std", "intensity_min", "intensity_max"}

\* a label with a character that is not white space
IsNonBlank(label) == \E k \in 1..Len(label) : label[k] \notin whitespace

\* the non-blank intervals of a tier, in interval order
NonBlankIntervals(tier) ==
    LET NonBlank(interval) == IsNonBlank(interval.label)
    IN  SelectSeq(tier.intervals, NonBlank)

\* the non-blank intervals of the tier of `file` selected as kind, if any
SelectedIntervals(file, kind) ==
    LET idx == IF kind = "word" THEN SelectTiers(file.tiers).word_tier_idx
               ELSE SelectTiers(file.tiers).phone_tier_idx
    IN  IF idx = <<>> THEN <<>> ELSE NonBlankIntervals(file.tiers[idx[1]])

\* the fields of the measures that yield a result on the interval: the
\* formants are sampled on vowels longer than 30ms only
FieldsOfMeasuresThatSucceed(file, interval) ==
    LET start == interval.start
        end == interval.end
        formants == extract_formants(file.sound, start, end)
    IN  (IF /\ interval.label \in vowel_labels
            /\ end - start > 30
            /\ ~formants.raised
            /\ formants.value # <<>>
         THEN FormantFields ELSE {})
        \cup (IF extract_pitch(file.sound, start, end).value # <<>>
              THEN PitchFields ELSE {})
        \cup (IF extract_intensity(file.sound, start, end).value # <<>>
              THEN IntensityFields ELSE {})

\* the files the loop has gone through and found loadable
Analyzed ==
    {i \in 1..Len(textgrid_files) :
        /\ i < tg_index
        /\ ~DoesNotLoad(i)
        /\ textgrid_files[i].is_textgrid}

\* C13: whatever the engine does on a phoneme (it cannot make the formant,
\* pitch or intensity object, a query raises, or no sample is valid), no error
\* comes out of analyze_phoneme, so the batch never ends in an error; and
\* every file gone through has one record per labelled phone interval, with
\* the fields of exactly the measures that succeeded.
C13_MeasuresFailSilently ==
    /\ main_outcome # "PraatError"
    /\ main_pc \in {"loop", "returned", "done"} =>
           \A i \in Analyzed :
               LET rows == RowsOfFile(concat(all_phoneme_data), i)
                   intervals == SelectedIntervals(textgrid_files[i], "phone")
               IN  /\ Len(rows) = Len(intervals)
                   /\ \A k \in 1..Len(rows) :
                          DOMAIN rows[k] =
                              BaseFields \cup
                              FieldsOfMeasuresThatSucceed(textgrid_files[i],
                                                          intervals[k])

\* the rows carry the boundaries of the intervals, one row per interval, and
\* their distance as duration
BuiltFrom(rows, intervals) ==
    /\ Len(rows) = Len(intervals)
    /\ \A k \in 1..Len(rows) :
           /\ rows[k].start_time = intervals[k].start
           /\ rows[k].end_time = intervals[k].end
           /\ rows[k].duration = rows[k].end_time - rows[k].start_time

\* C14: every phoneme record and every word record analyze_file returned has
\* the start and the end of the annotation interval it was built from, and
\* duration = end_time - start_time.
C14_DurationIsEndMinusStart ==
    \A i \in Analyzed :
        /\ BuiltFrom(RowsOfFile(concat(all_phoneme_data), i),
                     SelectedIntervals(textgrid_files[i], "phone"))
        /\ BuiltFrom(RowsOfFile(concat(all_word_data), i),
                     SelectedIntervals(textgrid_files[i], "word"))

\* C14 witness: analyze_file has returned the records of a file; among them
\* a phoneme and a word that do not start at 0.
C14_Witness ==
    /\ Analyzed # {}
    /\ \E k \in 1..Len(concat(all_phoneme_data)) :
           /\ concat(all_phoneme_data)[k].start_time = 40
           /\ concat(all_phoneme_data)[k].duration = 60
    /\ \E k \in 1..Len(concat(all_word_data)) :
           /\ concat(all_word_data)[k].start_time = 20
           /\ concat(all_word_data)[k].duration = 130

\* textgrid_files[i] can give no phoneme record: it does not load, or is no
\* annotation, or has no PHONE tier with a labelled interval
GivesNoPhoneme(i) ==
    \/ DoesNotLoad(i)
    \/ ~textgrid_files[i].is_textgrid
    \/ SelectedIntervals(textgrid_files[i], "phone") = <<>>

\* C15: when analyze_all_files returns a phoneme table without records -- and
\* it does whenever there is no file, or no file that loads and has a PHONE
\* tier with a labelled interval -- save_results is not called: nothing is
\* ever written to the output folder, and main() ends by reporting that no
\* data was extracted.  Conversely, whatever is written is written for a
\* phoneme table with records.
C15_NoDataOutcome ==
    /\ (combined # <<>> /\ \A i \in 1..Len(textgrid_files) : GivesNoPhoneme(i))
           => combined[1].phonemes = <<>>
    /\ (combined # <<>> /\ combined[1].phonemes = <<>>) =>
           /\ output_folder = {}
           /\ main_outcome \in {"", "No data extracted"}
           /\ main_pc = "done" => main_outcome = "No data extracted"
    /\ output_folder # {} => combined[1].phonemes # <<>>
    /\ main_outcome = "No data extracted" => combined[1].phonemes = <<>>

\* C15 witness: a folder of a file that does not load and a file whose PHONE
\* tier has blank labels only; main() has ended with "no data".
C15_Witness ==
    /\ Len(textgrid_files) = 2
    /\ DoesNotLoad(1)
    /\ ~DoesNotLoad(2)
    /\ SelectTiers(textgrid_files[2].tiers).phone_tier_idx # <<>>
    /\ main_pc = "done"
    /\ main_outcome = "No data extracted"
    /\ output_folder = {}

\* how often `sampler` was called on the interval of textgrid_files[i]
CallsOn(i, interval, sampler) ==
    Cardinality({k \in 1..Len(sampler_calls) :
                    sampler_calls[k] =
                        SamplerCall(textgrid_files[i].basename, interval.label,
                                    interval.start, interval.end, sampler)})

\* the files analyze_file has gone into: those it returned tables for, and
\* the file it was in when an error ended the batch
Entered ==
    Analyzed \cup {i \in 1..Len(textgrid_files) :
                      i = tg_index /\ main_outcome = "PraatError"}

\* the formant sampler is called on vowels longer than 30ms only, and no
\* record of a consonant or of a vowel of at most 30ms has a formant field
FormantsOnLongVowelsOnly ==
    /\ \A k \in 1..Len(sampler_calls) :
           sampler_calls[k].sampler = "formants" =>
               /\ sampler_calls[k].phoneme \in vowel_labels
               /\ sampler_calls[k].end_time - sampler_calls[k].start_time > 30
    /\ \A k \in 1..Len(concat(all_phoneme_data)) :
           LET row == concat(all_phoneme_data)[k]
           IN  ~(row.phoneme \in vowel_labels /\ row.end_time - row.start_time > 30)
                   => DOMAIN row \cap FormantFields = {}
    /\ \A i \in Entered :
           \A k \in 1..Len(SelectedIntervals(textgrid_files[i], "phone")) :
               CallsOn(i, SelectedIntervals(textgrid_files[i], "phone")[k],
                       "formants") <= 1

\* the pitch and the intensity sampler are each called exactly once on every
\* labelled phone interval of the files in `files`
PitchAndIntensityOnce(files) ==
    \A i \in files :
        \A k \in 1..Len(SelectedIntervals(textgrid_files[i], "phone")) :
            LET interval == SelectedIntervals(textgrid_files[i], "phone")[k]
            IN  /\ CallsOn(i, interval, "pitch") = 1
                /\ CallsOn(i, interval, "intensity") = 1

\* C16: the formant sampler is called only on vowels of duration > 30ms, so
\* that the records of consonants and of vowels of at most 30ms have no
\* formant field; and for every phoneme interval analyze_phoneme returned a
\* record for -- every labelled phone interval of every file analyze_file
\* returned tables for --, of whatever kind and duration, the pitch sampler
\* and the intensity sampler have each been called exactly once.
C16_SamplerInvocation ==
    /\ FormantsOnLongVowelsOnly
    /\ PitchAndIntensityOnce(Analyzed)

\* C16 witness: the tables of a file with a consonant of 50ms, a vowel of
\* 60ms and a vowel of 30ms are returned: one formant call, on the vowel of
\* 60ms, and five calls of each of the other two samplers.
C16_Witness ==
    /\ Len(textgrid_files) = 1
    /\ combined # <<>>
    /\ Len(combined[1].phonemes) = 5
    /\ Cardinality({k \in 1..Len(sampler_calls) :
                       sampler_calls[k].sampler = "formants"}) = 1
    /\ Cardinality({k \in 1..Len(sampler_calls) :
                       sampler_calls[k].sampler = "pitch"}) = 5
    /\ Cardinality({k \in 1..Len(sampler_calls) :
                       sampler_calls[k].sampler = "intensity"}) = 5
    /\ \E k \in 1..5 : /\ ~combined[1].phonemes[k].is_vowel
                        /\ combined[1].phonemes[k].duration = 50
                        /\ DOMAIN combined[1].phonemes[k] \cap FormantFields = {}
    /\ \E k \in 1..5 : /\ combined[1].phonemes[k].is_vowel
                        /\ combined[1].phonemes[k].duration = 30
                        /\ DOMAIN combined[1].phonemes[k] \cap FormantFields = {}
    /\ \E k \in 1..5 : /\ combined[1].phonemes[k].is_vowel
                        /\ FormantFields \subseteq DOMAIN combined[1].phonemes[k]

----------------------------------------------------------------------------
(* Tier selection: folders of one file that loads, over every list of      *)
(* tiers of a few names.  The tier at position k has one interval, ending  *)
(* at 40 + 10k ms, so that the records tell which tier they were read from.*)

MaxTiers == 3

TierNames ==
    {words, phones, <<"W", "o", "r", "d">>, <<"P", "H", "O", "N", "E", "S">>,
     <<"n", "o", "t", "e", "s">>,
     <<"w", "o", "r", "d", "-", "p", "h", "o", "n", "e", "s">>}

TierAt(k, name) == Tier(name, <<Interval(<<"T">>, 0, 40 + 10 * k)>>)

TierLists(n) ==
    UNION {{[k \in 1..m |-> TierAt(k, names[k])] : names \in [1..m -> TierNames]}
              : m \in 0..n}

InitTiers ==
    /\ CheckerNotConstructed
    /\ PipelineNotConstructed
    /\ \E tiers \in TierLists(MaxTiers) :
           AnalyzerConstructed(
               <<[File(TRUE, TRUE, TRUE, ClearSound, tiers) EXCEPT !.basename = "a"]>>)

SpecTiers == InitTiers /\ [][main]_vars

\* the name of the tier contains the pattern, whatever the case of its letters
NameContains(tier, pattern) == Contains(pattern, lower(tier.name))

\* the last of the positions, if any
LastOf(positions) ==
    IF positions = {} THEN <<>>
    ELSE <<CHOOSE k \in positions : \A j \in positions : j <= k>>

\* the rows are those of the tier at idx, or there is none if idx is none
ReadFrom(rows, tiers, idx) ==
    IF idx = <<>> THEN rows = <<>>
    ELSE BuiltFrom(rows, NonBlankIntervals(tiers[idx[1]]))

\* C17 as stated: the word records are read from the last tier whose name
\* contains "word" and the phoneme records from the last tier whose name
\* contains "phone", case-insensitively; a kind no tier matches has no record.
C17_LastContainingTier ==
    \A i \in Analyzed :
        LET tiers == textgrid_files[i].tiers
            word == LastOf({k \in 1..Len(tiers) :
                               NameContains(tiers[k], <<"w", "o", "r", "d">>)})
            phone == LastOf({k \in 1..Len(tiers) :
                                NameContains(tiers[k], <<"p", "h", "o", "n", "e">>)})
        IN  /\ ReadFrom(RowsOfFile(concat(all_word_data), i), tiers, word)
            /\ ReadFrom(RowsOfFile(concat(all_phoneme_data), i), tiers, phone)

\* C17, amended: the word records are read from the last tier whose name
\* contains "word", and the phoneme records from the last tier whose name
\* contains "phone" and does not contain "word", case-insensitively; a kind
\* with no such tier has no record.
C17_LastMatchWins ==
    \A i \in Analyzed :
        LET tiers == textgrid_files[i].tiers
            word == LastOf({k \in 1..Len(tiers) :
                               NameContains(tiers[k], <<"w", "o", "r", "d">>)})
            phone == LastOf({k \in 1..Len(tiers) :
                                /\ NameContains(tiers[k], <<"p", "h", "o", "n", "e">>)
                                /\ ~NameContains(tiers[k], <<"w", "o", "r", "d">>)})
        IN  /\ ReadFrom(RowsOfFile(concat(all_word_data), i), tiers, word)
            /\ ReadFrom(RowsOfFile(concat(all_phoneme_data), i), tiers, phone)

\* C17 witness: the tiers "Word", "words", "PHONES" were analyzed: the words
\* come from the second tier and the phonemes from the third.
C17_Witness ==
    /\ Analyzed = {1}
    /\ Len(textgrid_files[1].tiers) = 3
    /\ textgrid_files[1].tiers[1].name = <<"W", "o", "r", "d">>
    /\ textgrid_files[1].tiers[2].name = words
    /\ textgrid_files[1].tiers[3].name = <<"P", "H", "O", "N", "E", "S">>
    /\ Len(concat(all_word_data)) = 1
    /\ concat(all_word_data)[1].end_time = 60
    /\ Len(concat(all_phoneme_data)) = 1
    /\ concat(all_phoneme_data)[1].end_time = 70

----------------------------------------------------------------------------
(* Blank labels and missing tiers.                                         *)

\* the labels of a word table / a phoneme table, row by row
WordLabels(rows) == [k \in 1..Len(rows) |-> rows[k].word]
PhonemeLabels(rows) == [k \in 1..Len(rows) |-> rows[k].phoneme]

\* the labels of intervals, interval by interval
IntervalLabels(intervals) == [k \in 1..Len(intervals) |-> intervals[k].label]

\* C18: the word records and the phoneme records analyze_file returns for a
\* file are, in interval order, one record for each interval of the selected
\* tier whose label has a character that is not white space, with that label
\* and those boundaries; an interval with an empty or white-space-only label
\* has no record.
C18_BlankIntervalsExcluded ==
    \A i \in Analyzed :
        LET word_rows == RowsOfFile(concat(all_word_data), i)
            phone_rows == RowsOfFile(concat(all_phoneme_data), i)
            word_intervals == SelectedIntervals(textgrid_files[i], "word")
            phone_intervals == SelectedIntervals(textgrid_files[i], "phone")
        IN  /\ WordLabels(word_rows) = IntervalLabels(word_intervals)
            /\ PhonemeLabels(phone_rows) = IntervalLabels(phone_intervals)
            /\ BuiltFrom(word_rows, word_intervals)
            /\ BuiltFrom(phone_rows, phone_intervals)
            /\ \A k \in 1..Len(word_rows) : IsNonBlank(word_rows[k].word)
            /\ \A k \in 1..Len(phone_rows) : IsNonBlank(phone_rows[k].phoneme)

\* C18 witness: a file whose WORD tier has an empty label, a label of one
\* space and two words, and whose PHONE tier has an empty label, a label of
\* a space and a tab and five phones, was analyzed: two word records and five
\* phoneme records.
C18_Witness ==
    /\ Analyzed = {1}
    /\ textgrid_files[1].tiers = WordsAndPhones
    /\ WordLabels(concat(all_word_data)) = <<<<"c", "a", "t">>, <<"t", "e", "a">>>>
    /\ PhonemeLabels(concat(all_phoneme_data)) =
           <<<<"K">>, <<"A", "E", "1">>, <<"T">>, <<"T">>, <<"I", "Y", "1">>>>

\* textgrid_files[i] has a tier whose name contains the pattern
HasTier(i, pattern) ==
    \E k \in 1..Len(textgrid_files[i].tiers) :
        NameContains(textgrid_files[i].tiers[k], pattern)

\* C19: a loaded annotation without WORD tier gives no word record and still
\* one phoneme record per labelled interval of its PHONE tier; one without
\* PHONE tier gives no phoneme record and still its word records; either way
\* analyze_file returns the two tables of the file and analyze_all_files
\* appends them and goes on: no batch ends in a file without PHONE tier, and
\* the batch has a table for every file gone through.
C19_MissingTierNotFatal ==
    /\ Len(all_phoneme_data) = Cardinality(Analyzed)
    /\ Len(all_word_data) = Cardinality(Analyzed)
    /\ main_outcome = "PraatError" => HasTier(tg_index, <<"p", "h", "o", "n", "e">>)
    /\ \A i \in Analyzed :
           LET word_rows == RowsOfFile(concat(all_word_data), i)
               phone_rows == RowsOfFile(concat(all_phoneme_data), i)
           IN  /\ ~HasTier(i, <<"w", "o", "r", "d">>) =>
                      /\ word_rows = <<>>
                      /\ PhonemeLabels(phone_rows) =
                             IntervalLabels(
                                 SelectedIntervals(textgrid_files[i], "phone"))
               /\ ~HasTier(i, <<"p", "h", "o", "n", "e">>) =>
                      /\ phone_rows = <<>>
                      /\ WordLabels(word_rows) =
                             IntervalLabels(
                                 SelectedIntervals(textgrid_files[i], "word"))

\* C19 witness: a file with a PHONE tier only and a file with a WORD tier
\* only; the batch has ended with the five phonemes of the first and the two
\* words of the second.
C19_Witness ==
    /\ Len(textgrid_files) = 2
    /\ Analyzed = {1, 2}
    /\ ~HasTier(1, <<"w", "o", "r", "d">>)
    /\ ~HasTier(2, <<"p", "h", "o", "n", "e">>)
    /\ main_pc = "done"
    /\ Len(RowsOfFile(combined[1].phonemes, 1)) = 5
    /\ Len(RowsOfFile(combined[1].words, 2)) = 2
    /\ Len(combined[1].phonemes) = 5
    /\ Len(combined[1].words) = 2

----------------------------------------------------------------------------
(* extract_formants by itself, on windows around 30ms and on formant       *)
(* tracks that are defined on all, a part or none of the window, or are 0. *)

\* extract_formants is called with the arguments of c and ends
extract_formants_call ==
    /\ formants_call # <<>>
    /\ formants_call[1].outcome = <<>>
    /\ formants_call' =
           <<[formants_call[1] EXCEPT !.outcome =
                 <<extract_formants(formants_call[1].sound,
                                    formants_call[1].start_time,
                                    formants_call[1].end_time)>>]>>
    /\ UNCHANGED <<checker_vars, textgrid_files, main_pc, tg_index,
                   all_phoneme_data, all_word_data, combined, sampler_calls,
                   output_folder, main_outcome, pipeline_vars>>

\* the longest window
MaxWindow == 60

Windows == {<<0, 29>>, <<0, 30>>, <<0, 31>>, <<40, 40 + MaxWindow>>}

FormantTracks(hz) ==
    {Track(0, Never, hz), Track(0, 80, hz), Track(0, 50, hz), Track(0, 0, hz),
     Track(0, Never, 0)}

FormantSounds ==
    {[ClearSound EXCEPT !.formant = [object |-> object, fails_from |-> fails_from,
                                     f1 |-> f1, f2 |-> f2, f3 |-> f3]] :
        object \in BOOLEAN, fails_from \in {Never, 60},
        f1 \in FormantTracks(500), f2 \in FormantTracks(1500),
        f3 \in FormantTracks(2500)}

InitFormants ==
    /\ CheckerNotConstructed
    /\ PipelineNotConstructed
    /\ AnalyzerNotRun
    /\ \E sound \in FormantSounds, window \in Windows :
           formants_call = <<[sound |-> sound, start_time |-> window[1],
                              end_time |-> window[2], outcome |-> <<>>]>>

SpecFormants == InitFormants /\ [][extract_formants_call]_vars

\* the number of the three sample times at which the track has a value the
\* code keeps: the query does not raise, and yields a number that is not 0
ValidSamples(formant, track, start_time, end_time) ==
    Cardinality({t \in {start_time, (start_time + end_time) \div 2, end_time} :
                    /\ t < formant.fails_from
                    /\ track.from <= t /\ t < track.to
                    /\ track.value # 0})

\* in dict d, the mean and the deviation named have no numeric value
BothOmitted(d, mean, std) ==
    /\ mean \in DOMAIN d => d[mean] = <<>>
    /\ std \in DOMAIN d => d[std] = <<>>

\* C20: when extract_formants returns for a window of at least 30ms: with no
\* valid sample of the first track the result is None; otherwise it is a
\* dict in which the mean and the deviation of a second or third track
\* without valid sample are both omitted (neither has a numeric value).
C20_EmptyTrackOmitted ==
    \A k \in 1..Len(formants_call) :
        LET c == formants_call[k]
            formant == c.sound.formant
            n1 == ValidSamples(formant, formant.f1, c.start_time, c.end_time)
            n2 == ValidSamples(formant, formant.f2, c.start_time, c.end_time)
            n3 == ValidSamples(formant, formant.f3, c.start_time, c.end_time)
        IN  (/\ c.outcome # <<>>
             /\ ~c.outcome[1].raised
             /\ c.end_time - c.start_time >= 30) =>
                IF n1 = 0 THEN c.outcome[1].value = <<>>
                ELSE /\ c.outcome[1].value # <<>>
                     /\ n2 = 0 => BothOmitted(c.outcome[1].value[1], "f2_mean", "f2_std")
                     /\ n3 = 0 => BothOmitted(c.outcome[1].value[1], "f3_mean", "f3_std")

----------------------------------------------------------------------------
(* scripts/mfa_automation.py: MFAPipeline.  A command ends in one of the   *)
(* three ways run_command tells apart: exit status 0, a non-zero exit      *)
(* status (CalledProcessError, as check=True), or no executable            *)
(* (FileNotFoundError).  Timestamps are left out of the log lines and of   *)
(* the report; the names of the listed files are left out, their number is *)
(* kept.                                                                   *)

Ending(kind, stdout, stderr) == [kind |-> kind, stdout |-> stdout, stderr |-> stderr]

\* log(message), lines 59-72: the line is appended to the log file
log(file, message) == Append(file, message)

RECURSIVE log_all(_, _)
log_all(file, messages) ==
    IF messages = <<>> THEN file
    ELSE log_all(log(file, Head(messages)), Tail(messages))

separator == "============================================================"

\* ' '.join(command)
RECURSIVE join(_)
join(command) ==
    IF Len(command) = 0 THEN ""
    ELSE IF Len(command) = 1 THEN command[1]
    ELSE command[1] \o " " \o join(Tail(command))

\* run_command (lines 74-112): the value returned and the lines logged, for
\* the way the command ends
run_command(command, description, ending) ==
    LET head == <<"STEP: " \o description, "Running command: " \o join(command)>>
    IN  IF ending.kind = "exit0"
        THEN [success |-> TRUE,
              lines |-> head \o <<"SUCCESS: " \o description>>
                        \o (IF ending.stdout # ""
                            THEN <<"Output: " \o ending.stdout>> ELSE <<>>)]
        ELSE IF ending.kind = "nonzero"
        THEN [success |-> FALSE,
              lines |-> head \o <<"FAILED: " \o description,
                                  "Error: " \o ending.stderr>>]
        ELSE [success |-> FALSE,
              lines |-> head \o <<"ERROR: MFA command not found. Is MFA installed?",
                                  "Make sure you're running this in the 'mfa' conda environment">>]

\* len(f.read().strip().split('\n')) for a file of n words (line 149): the
\* split of an empty text is a list of one empty string
oovs_len(n) == IF n = 0 THEN 1 ELSE n

\* validate_corpus (lines 114-155) on machine m
validate_corpus(m) ==
    LET command == <<"mfa", "validate", m.corpus_path, m.dictionary>>
        run == run_command(command, "Validating corpus against dictionary",
                           m.validate)
        found == oovs_len(m.oov_file[1])
        oov_lines ==
            IF run.success /\ m.oov_file # <<>>
            THEN <<"Found " \o ToString(found) \o " out-of-vocabulary words",
                   "OOV words: the first " \o ToString(IF found > 10 THEN 10 ELSE found)>>
                 \o (IF found > 10
                     THEN <<"... and " \o ToString(found - 10) \o " more">>
                     ELSE <<>>)
            ELSE <<>>
    IN  [success |-> run.success,
         command |-> command,
         lines |-> <<separator, "STEP 1: VALIDATING CORPUS", separator>>
                   \o run.lines \o oov_lines]

\* run_alignment (lines 157-191) on machine m, with n TextGrid files in
\* output_path before the command: a command that exits with 0 has written
\* its TextGrid files
run_alignment(m, n) ==
    LET command == <<"mfa", "align", m.corpus_path, m.dictionary,
                     m.acoustic_model, m.output_path>>
        run == run_command(command, "Performing forced alignment", m.align)
        textgrids == IF run.success THEN n + m.new_textgrids ELSE n
    IN  [success |-> run.success,
         command |-> command,
         textgrids |-> textgrids,
         lines |-> <<separator, "STEP 2: RUNNING FORCED ALIGNMENT", separator>>
                   \o run.lines
                   \o (IF run.success
                       THEN <<"Generated " \o ToString(textgrids) \o " TextGrid files">>
                            \o [i \in 1..textgrids |-> "  - a TextGrid"]
                       ELSE <<>>)]

\* generate_report (lines 193-243) on machine m, with n TextGrid files in
\* output_path
generate_report(m, n) ==
    LET r == [corpus_path |-> m.corpus_path,
              output_path |-> m.output_path,
              dictionary |-> m.dictionary,
              acoustic_model |-> m.acoustic_model,
              textgrids |-> n,
              corpus_stats |-> [wav_files |-> m.wav_files,
                                txt_files |-> m.txt_files,
                                textgrids_generated |-> n]]
    IN  [report |-> r,
         lines |-> <<separator, "STEP 3: GENERATING REPORT", separator,
                     "Report saved to: alignment_report.json",
                     "WAV files: " \o ToString(m.wav_files),
                     "TXT files: " \o ToString(m.txt_files),
                     "TextGrids generated: " \o ToString(n)>>]

\* a pipeline that goes on to the next step whatever the step returned
StepFailed_Never(success) == FALSE

\* the test `if not self.validate_corpus()` / `if not self.run_alignment()`
\* (lines 264, 269)
StepFailed(success) == ~success

\* lines 257-266: the pipeline starts and validates the corpus
run_full_pipeline_validate ==
    /\ pipeline_pc = "constructed"
    /\ LET step == validate_corpus(mfa)
           begun == log_all(log_file, <<separator, "STARTING FULL MFA PIPELINE",
                                        separator>> \o step.lines)
       IN  /\ commands_run' = Append(commands_run, step.command)
           /\ validated' = <<step.success>>
           /\ IF StepFailed(step.success)
              THEN /\ log_file' = log(begun, "Pipeline FAILED at validation step")
                   /\ pipeline_result' = <<FALSE>>
                   /\ pipeline_pc' = "done"
              ELSE /\ log_file' = begun
                   /\ pipeline_result' = pipeline_result
                   /\ pipeline_pc' = "validated"
    /\ UNCHANGED <<mfa, aligned, output_textgrids, alignment_report>>
    /\ UNCHANGED <<checker_vars, analyzer_vars>>

\* lines 268-271: the corpus is aligned
run_full_pipeline_align ==
    /\ pipeline_pc = "validated"
    /\ LET step == run_alignment(mfa, output_textgrids)
           begun == log_all(log_file, step.lines)
       IN  /\ commands_run' = Append(commands_run, step.command)
           /\ aligned' = <<step.success>>
           /\ output_textgrids' = step.textgrids
           /\ IF StepFailed(step.success)
              THEN /\ log_file' = log(begun, "Pipeline FAILED at alignment step")
                   /\ pipeline_result' = <<FALSE>>
                   /\ pipeline_pc' = "done"
              ELSE /\ log_file' = begun
                   /\ pipeline_result' = pipeline_result
                   /\ pipeline_pc' = "aligned"
    /\ UNCHANGED <<mfa, validated, alignment_report>>
    /\ UNCHANGED <<checker_vars, analyzer_vars>>

\* lines 273-285: the report is written and the pipeline returns True
run_full_pipeline_report ==
    /\ pipeline_pc = "aligned"
    /\ LET step == generate_report(mfa, output_textgrids)
       IN  /\ alignment_report' = <<step.report>>
           /\ log_file' = log_all(log_file,
                                  step.lines \o <<separator,
                                                  "PIPELINE COMPLETED SUCCESSFULLY!",
                                                  "Total time", separator>>)
    /\ pipeline_result' = <<TRUE>>
    /\ pipeline_pc' = "done"
    /\ UNCHANGED <<mfa, commands_run, validated, aligned, output_textgrids>>
    /\ UNCHANGED <<checker_vars, analyzer_vars>>

run_full_pipeline ==
    \/ run_full_pipeline_validate
    \/ run_full_pipeline_align
    \/ run_full_pipeline_report

\* the most TextGrid files one align command writes
MaxNewTextGrids == 2

\* the most recordings in the corpus
MaxWavFiles == 2

Endings ==
    {Ending("exit0", "", ""), Ending("exit0", "Done", ""),
     Ending("nonzero", "", "Traceback"), Ending("not_found", "", "")}

\* the machines the pipeline is run on: how the two commands end, the
\* out-of-vocabulary file the validation leaves (none, or one of so many
\* words), and the files of the two folders
Machines ==
    [corpus_path : {"mfa_corpus"}, output_path : {"mfa_output"},
     dictionary : {"english_us_arpa"}, acoustic_model : {"english_us_arpa"},
     validate : Endings, align : Endings,
     oov_file : {<<>>, <<0>>, <<3>>, <<11>>},
     new_textgrids : 0..MaxNewTextGrids,
     stale_textgrids : {0, 1},
     wav_files : 1..MaxWavFiles,
     txt_files : {MaxWavFiles}]

\* the state __init__ leaves (lines 41-48) on machine m
PipelineConstructed(m) ==
    /\ mfa = m
    /\ pipeline_pc = "constructed"
    /\ commands_run = <<>>
    /\ validated = <<>>
    /\ aligned = <<>>
    /\ log_file = <<>>
    /\ output_textgrids = m.stale_textgrids
    /\ alignment_report = <<>>
    /\ pipeline_result = <<>>

InitPipeline ==
    /\ CheckerNotConstructed
    /\ AnalyzerNotRun
    /\ formants_call = <<>>
    /\ \E m \in Machines : PipelineConstructed(m)

SpecPipeline == InitPipeline /\ [][run_full_pipeline]_vars

----------------------------------------------------------------------------
(* C21 *)

\* the second element of each command handed to subprocess.run
Subcommands == [i \in 1..Len(commands_run) |-> commands_run[i][2]]

Succeeds(ending) == ending.kind = "exit0"

\* C21: run_full_pipeline runs validate, align, report in this order: the
\* align command is started only after the validate command succeeded, the
\* report is written only after the align command succeeded, a step that
\* run_command reports as False (non-zero exit or missing executable) ends
\* the pipeline with no later step run, and the value returned is True iff
\* both validation and alignment succeeded.
C21_StepsInOrder ==
    /\ Subcommands \in {<<>>, <<"validate">>, <<"validate", "align">>}
    /\ validated # <<>> => /\ Subcommands # <<>>
                           /\ validated[1] = Succeeds(mfa.validate)
    /\ aligned # <<>> => /\ Len(Subcommands) = 2
                         /\ aligned[1] = Succeeds(mfa.align)
    /\ Len(Subcommands) = 2 => validated = <<TRUE>>
    /\ alignment_report # <<>> => validated = <<TRUE>> /\ aligned = <<TRUE>>
    /\ validated = <<FALSE>> =>
           /\ Len(Subcommands) = 1
           /\ aligned = <<>>
           /\ alignment_report = <<>>
           /\ pipeline_pc = "done"
           /\ pipeline_result = <<FALSE>>
    /\ aligned = <<FALSE>> =>
           /\ alignment_report = <<>>
           /\ pipeline_pc = "done"
           /\ pipeline_result = <<FALSE>>
    /\ pipeline_pc = "done" <=> pipeline_result # <<>>
    /\ pipeline_result # <<>> =>
           /\ pipeline_result[1] <=> (validated = <<TRUE>> /\ aligned = <<TRUE>>)
           /\ pipeline_result[1] <=> alignment_report # <<>>

\* the validation succeeded, the align command was started and failed for a
\* missing executable: the pipeline returned False and wrote no report
C21_Witness ==
    /\ validated = <<TRUE>>
    /\ mfa.align.kind = "not_found"
    /\ Subcommands = <<"validate", "align">>
    /\ pipeline_result = <<FALSE>>
    /\ alignment_report = <<>>

----------------------------------------------------------------------------
(* C22.  check_phoneme_distribution on one symbol group of every size from *)
(* 3 to MaxGroup and every split of its rows over four durations, alone or *)
(* beside two rows of another symbol.                                      *)

\* the most rows of the group
MaxGroup == 11

GroupDurations == <<50, 51, 55, 75>>

\* c[i] rows of AE1 of duration GroupDurations[i], in the order of the durations
GroupTable(c) ==
    [k \in 1..c[1] |-> PhonemeRow("f1", "AE1", 0, GroupDurations[1])]
    \o [k \in 1..c[2] |-> PhonemeRow("f1", "AE1", 0, GroupDurations[2])]
    \o [k \in 1..c[3] |-> PhonemeRow("f2", "AE1", 0, GroupDurations[3])]
    \o [k \in 1..c[4] |-> PhonemeRow("f2", "AE1", 0, GroupDurations[4])]

GroupTables ==
    {GroupTable(c) : c \in {d \in [1..4 -> 0..MaxGroup] :
                               d[1] + d[2] + d[3] + d[4] \in 3..MaxGroup}}

OtherGroups == {<<>>, <<PhonemeRow("f1", "B", 0, 60), PhonemeRow("f1", "B", 60, 150)>>}

InitSmallGroups ==
    \E group \in GroupTables, other \in OtherGroups :
        Constructed(other \o group, <<>>)

SpecSmallGroups == InitSmallGroups /\ [][check_phoneme_distribution]_vars

\* the squared z-scores the code computes for the rows of symbol p
GroupZScores(df, p) ==
    LET data == phoneme_data(df, p)
    IN  {z_score_sq(data[i], mean_of(data), variance(data)) : i \in 1..Len(data)}

\* C22: check_phoneme_distribution flags no member of a symbol group of 10
\* or fewer occurrences: in a group of 3 to 10 rows every z-score the code
\* computes is at most 3 (its square at most 9), a smaller group is not
\* scored, and every statistical_outlier record names a symbol with at least
\* 11 occurrences in the table.
C22_SmallGroupsNeverFlagged ==
    "distribution" \in called =>
        /\ \A p \in SymbolSet(phoneme_df) :
               Len(RowsOfSymbol(phoneme_df, p)) <= 10 =>
                   /\ RecordsOfSymbol(statistical_outliers, p) = <<>>
                   /\ Len(RowsOfSymbol(phoneme_df, p)) >= 3 =>
                          \A z \in GroupZScores(phoneme_df, p) : z.num <= 9 * z.den
        /\ \A k \in 1..Len(statistical_outliers) :
               Len(RowsOfSymbol(phoneme_df, statistical_outliers[k].phoneme)) >= 11

\* the check ran on nine AE1 of 50ms and one of 75ms, the split of ten rows
\* with the largest z-score (9 / sqrt(10), about 2.85), and flagged nothing
C22_Witness ==
    /\ "distribution" \in called
    /\ Len(RowsOfSymbol(phoneme_df, "AE1")) = 10
    /\ Cardinality({i \in 1..Len(phoneme_df) :
                       phoneme_df[i].phoneme = "AE1" /\ phoneme_df[i].duration = 50}) = 9
    /\ \E i \in 1..Len(phoneme_df) :
           phoneme_df[i].phoneme = "AE1" /\ phoneme_df[i].duration = 75
    /\ \E z \in GroupZScores(phoneme_df, "AE1") : 10 * z.num = 81 * z.den
    /\ statistical_outliers = <<>>

----------------------------------------------------------------------------
(* C23 *)

\* the rows of the table that name file f, counted on the table itself
RowsOfFileNamed(df, f) == LET Named(r) == r.file = f IN SelectSeq(df, Named)

\* record r relates rows i and i + 1 of frame, with the gap between them
RelatesPair(r, frame, i, first, second, size) ==
    /\ r[first] = frame[i].phoneme
    /\ r[second] = frame[i + 1].phoneme
    /\ r.time = frame[i].end_time
    /\ r[size] = abs(frame[i + 1].start_time - frame[i].end_time)

\* C23: check_timing_gaps compares only phonemes of the same file: there is
\* a start-time order of every file's rows in which every gap record and
\* every overlap record relates two consecutive rows of the file the record
\* names (never the last row of one file and the first of another), and a
\* file has at most one record fewer than it has rows, so a file of one row
\* has none.
C23_PairsWithinFile ==
    "timing" \in called =>
        \E orders \in SortedFrames(phoneme_df) :
            /\ \A k \in 1..Len(timing_issues.gaps) :
                   LET r == timing_issues.gaps[k]
                   IN  /\ r.file \in FileSet(phoneme_df)
                       /\ \E i \in 1..(Len(orders[r.file]) - 1) :
                              /\ orders[r.file][i].file = r.file
                              /\ orders[r.file][i + 1].file = r.file
                              /\ RelatesPair(r, orders[r.file], i, "after_phoneme",
                                             "before_phoneme", "gap_ms")
            /\ \A k \in 1..Len(timing_issues.overlaps) :
                   LET r == timing_issues.overlaps[k]
                   IN  /\ r.file \in FileSet(phoneme_df)
                       /\ \E i \in 1..(Len(orders[r.file]) - 1) :
                              /\ orders[r.file][i].file = r.file
                              /\ orders[r.file][i + 1].file = r.file
                              /\ RelatesPair(r, orders[r.file], i, "phoneme1",
                                             "phoneme2", "overlap_ms")
            /\ \A f \in FileSet(phoneme_df) :
                   /\ Len(orders[f]) = Len(RowsOfFileNamed(phoneme_df, f))
                   /\ Len(RecordsOfFile(timing_issues.gaps, f))
                      + Len(RecordsOfFile(timing_issues.overlaps, f))
                          <= Len(RowsOfFileNamed(phoneme_df, f)) - 1

\* the check ran on a table in which the one row of f2, [0,10], stands
\* between the rows [0,10] and [18,30] of f1: the only record is the gap of
\* 8ms of f1, although the row of f2 is 8ms before and 10ms after its
\* neighbours in the table
C23_Witness ==
    /\ "timing" \in called
    /\ Len(phoneme_df) = 3
    /\ phoneme_df[1] = PhonemeRow("f1", "B", 0, 10)
    /\ phoneme_df[2] = PhonemeRow("f2", "B", 0, 10)
    /\ phoneme_df[3] = PhonemeRow("f1", "T", 18, 30)
    /\ timing_issues.overlaps = <<>>
    /\ Len(timing_issues.gaps) = 1
    /\ timing_issues.gaps[1].file = "f1"
    /\ timing_issues.gaps[1].gap_ms = 8
    /\ RecordsOfFile(timing_issues.gaps, "f2") = <<>>

----------------------------------------------------------------------------
(* C24 *)

AllChecks == {"duration", "timing", "distribution", "consistency"}

\* file content f is the complete report of the tables and of the four
\* lists: the two totals, the eight counts and the four detail lists
IsCompleteReport(f) ==
    /\ f.total_phonemes = Len(phoneme_df)
    /\ f.total_words = Len(word_df)
    /\ f.duration_anomalies =
           [too_short_vowels |-> Len(duration_anomalies.too_short_vowels),
            too_long_vowels |-> Len(duration_anomalies.too_long_vowels),
            too_short_consonants |-> Len(duration_anomalies.too_short_consonants),
            too_long_consonants |-> Len(duration_anomalies.too_long_consonants)]
    /\ f.timing_issues = [gaps |-> Len(timing_issues.gaps),
                          overlaps |-> Len(timing_issues.overlaps)]
    /\ f.statistical_outliers = Len(statistical_outliers)
    /\ f.word_phoneme_mismatches = Len(consistency_issues)
    /\ f.details.duration_anomalies = duration_anomalies
    /\ f.details.timing_issues = timing_issues
    /\ f.details.statistical_outliers = statistical_outliers
    /\ f.details.consistency_issues = consistency_issues

\* C24: generate_quality_report runs the four checks and writes the complete
\* report (counts and detail lists) to the output file before it computes
\* error_rate and the grade: from the moment it is about to compute
\* error_rate the file holds the complete report of the four checks' results,
\* no error rate or grade exists without the file, and when the error-rate
\* computation fails (zero phoneme rows) the file is written although the
\* call returns no report.
C24_ReportSavedBeforeGrade ==
    /\ output_file # <<>> =>
           /\ called = AllChecks
           /\ ResultsAsRunAlone(called, duration_anomalies, timing_issues,
                                statistical_outliers, consistency_issues)
           /\ IsCompleteReport(output_file[1])
           /\ output_file = report
    /\ pc \in {"summary", "error_rate", "grade", "return", "done", "failed"} =>
           output_file # <<>>
    /\ pc \in {"idle", "compile", "save", "summary", "error_rate"} =>
           /\ error_rate = <<>>
           /\ grade = ""
           /\ outcome = <<>>
    /\ (error_rate # <<>> \/ grade # "" \/ outcome # <<>>) => output_file # <<>>
    /\ pc = "failed" =>
           /\ Len(phoneme_df) = 0
           /\ output_file # <<>>
           /\ output_file[1].total_phonemes = 0
           /\ outcome[1].kind = "ZeroDivisionError"
           /\ outcome[1].value = <<>>
           /\ error_rate = <<>>
           /\ grade = ""

\* generate_quality_report on an empty phoneme table and a table of one word
\* has ended in the ZeroDivisionError: no report is returned, and the file
\* holds the report with its one no_phonemes record
C24_Witness ==
    /\ pc = "failed"
    /\ Len(phoneme_df) = 0
    /\ Len(word_df) = 1
    /\ outcome = <<[kind |-> "ZeroDivisionError", value |-> <<>>]>>
    /\ output_file # <<>>
    /\ output_file[1].word_phoneme_mismatches = 1
    /\ Len(output_file[1].details.consistency_issues) = 1
    /\ output_file[1].details.consistency_issues[1].issue = "no_phonemes"

====
